---- MODULE Spec2Model ----
(***************************************************************************)
(* State-machine model of the file storage service (StorageService and     *)
(* StorageController): ingestion with compensating cleanup, soft delete    *)
(* and the orphan reconciliation sweep.  Every request is a process that   *)
(* advances from one await point of its handler to the next, so requests   *)
(* interleave exactly where the event loop lets them.                      *)
(***************************************************************************)
EXTENDS Integers, Sequences, FiniteSets, TLC

VARIABLES
    records,    \* the files_metadata table, in insertion (uploadedAt) order
    disk,       \* the storage tree: relative path -> bytes of the file there
    proc,       \* per request slot: the handler running in it and its locals
    uuids,      \* number of uuidv4() values drawn so far
    response,   \* the outcome a handler has just settled with, if one just did
    sweepLog,   \* the latest back-to-back undisturbed sweeps (history)
    configMimeTypes, \* ALLOWED_MIME_TYPES as the constructor read it
    dirs,       \* the directories that exist at and under the upload path
    boot        \* where ensureUploadDirectories, started by the constructor, is

vars == <<records, disk, proc, uuids, response, sweepLog,
          configMimeTypes, dirs, boot>>

----------------------------------------------------------------------------
(* Bounds of the model *)

\* Most records in a store that is listed page by page.
MaxRecords == 6

MaxUuids == 3

\* Request slots: two requests can be in flight at once.
Procs == {1, 2}

\* The slot in use when requests come one at a time.
Solo == {1}

----------------------------------------------------------------------------
(* Configuration read by the constructor *)

maxFileSize == 10485760

DEFAULT_ALLOWED_MIME_TYPES ==
    { "image/jpeg", "image/png", "image/gif", "image/webp", "image/svg+xml",
      "application/pdf", "application/msword",
      "application/vnd.openxmlformats-officedocument.wordprocessingml.document",
      "application/vnd.ms-excel",
      "application/vnd.openxmlformats-officedocument.spreadsheetml.sheet",
      "application/vnd.ms-powerpoint",
      "application/vnd.openxmlformats-officedocument.presentationml.presentation",
      "text/plain", "text/csv" }


\* file.mimetype.startsWith('image/')
ImageMimeTypes ==
    { "image/jpeg", "image/png", "image/gif", "image/webp", "image/svg+xml",
      "image/bmp" }

\* A test that takes every mimetype for an image.
startsWithAnything(mimetype) == TRUE

startsWithImage(mimetype) == mimetype \in ImageMimeTypes

----------------------------------------------------------------------------
(* File names are sequences of one-character strings *)

RECURSIVE Join(_)
Join(chars) == IF chars = <<>> THEN "" ELSE Head(chars) \o Join(Tail(chars))

\* ALLOWED_MIME_TYPES is a sequence of pieces: ",", " " and stretches of other
\* characters; <<>> is the variable unset or empty, which are both falsy.
RECURSIVE split(_)
split(config) ==
    LET commas == { i \in 1..Len(config) : config[i] = "," }
    IN  IF commas = {} THEN <<config>>
        ELSE LET i == CHOOSE c \in commas : \A d \in commas : c <= d
             IN  <<SubSeq(config, 1, i - 1)>>
                   \o split(SubSeq(config, i + 1, Len(config)))

trim(part) ==
    LET inked == { i \in 1..Len(part) : part[i] # " " }
    IN  IF inked = {} THEN <<>>
        ELSE SubSeq(part, CHOOSE i \in inked : \A j \in inked : i <= j,
                          CHOOSE i \in inked : \A j \in inked : j <= i)

\* The list of an earlier constructor: empty when nothing is configured, and
\* the parts as they stand otherwise.
allowedMimeTypesOrNone(config) ==
    IF config = <<>> THEN {}
    ELSE { Join(split(config)[k]) : k \in 1..Len(split(config)) }

\* configMimeTypes ? configMimeTypes.split(',').map(t => t.trim())
\*                 : DEFAULT_ALLOWED_MIME_TYPES
allowedMimeTypesOf(config) ==
    IF config = <<>> THEN DEFAULT_ALLOWED_MIME_TYPES
    ELSE { Join(trim(split(config)[k])) : k \in 1..Len(split(config)) }

\* this.allowedMimeTypes
allowedMimeTypes == allowedMimeTypesOf(configMimeTypes)

\* Values of ALLOWED_MIME_TYPES a deployment may carry.
Configs ==
    { <<>>, <<"application/zip">>, <<",">>, <<" ">>,
      <<"image/png", ",", " ", "application/zip">>,
      <<"image/png", ",", "application/pdf", ",", "application/zip">> }

\* The upload path itself and the subdirectories the service stores into.
directories == <<".", "profiles", "documents", "forms", "thumbnails", "temp">>

\* A file can be created in a subdirectory that exists under an upload path
\* that exists.
hasDirectory(tree, subdir) == {".", subdir} \subseteq tree

\* ensureUploadDirectories has been through every directory.
Ensured == [pc |-> "done", rest |-> <<>>]

\* Index of the last occurrence of ch in chars, 0 when there is none.
LastIndexOf(chars, ch) ==
    LET hits == { i \in 1..Len(chars) : chars[i] = ch }
    IN  IF hits = {} THEN 0 ELSE CHOOSE i \in hits : \A j \in hits : j <= i

\* path.extname (POSIX): trailing "/" are passed over; of the last path
\* segment before them, the text from its last "." to its end; "" when the
\* segment has no ".", when its last "." is its first character, and when
\* the segment is "..".
extname(name) ==
    LET rest  == { i \in 1..Len(name) : name[i] # "/" }
        end   == IF rest = {} THEN 0
                 ELSE CHOOSE i \in rest : \A j \in rest : j <= i
        whole == SubSeq(name, 1, end)
        slash == LastIndexOf(whole, "/")
        base  == SubSeq(whole, slash + 1, end)
        dot   == LastIndexOf(base, ".")
    IN  IF dot <= 1 \/ base = <<".", ".">>
          THEN ""
          ELSE Join(SubSeq(base, dot, Len(base)))

\* A generator that gives the same value at every draw.
uuidConstant(n) == "u1"

\* uuidv4(): the n-th value drawn, every draw a value never drawn before.
uuidv4(n) == "u" \o ToString(n)

\* path.join of a directory and a file name
pathJoin(dir, name) == dir \o "/" \o name

\* A switch whose FORM_FIELD case is missing, so that it falls to the default.
getSubdirectoryFormsAsTemp(category) ==
    CASE category = "PROFILE"    -> "profiles"
      [] category = "DOCUMENT"   -> "documents"
      [] OTHER                   -> "temp"

getSubdirectoryByCategory(category) ==
    CASE category = "PROFILE"    -> "profiles"
      [] category = "DOCUMENT"   -> "documents"
      [] category = "FORM_FIELD" -> "forms"
      [] OTHER                   -> "temp"

\* What sharp writes for a buffer: a JPEG derived from it, not the buffer
\* and smaller than an image of any size: a marker and a digest.
thumbnailOf(buffer) == <<255, Len(buffer)>>

----------------------------------------------------------------------------
(* Requests the model issues *)

FileCategory == { "PROFILE", "DOCUMENT", "FORM_FIELD", "ATTACHMENT", "OTHER" }

\* Express.Multer.File values paired with the dto's fields; "" is a field the
\* request leaves out.
UploadInputs ==
    { [originalname |-> <<"a", ".", "p", "n", "g">>, mimetype |-> "image/png",
       size |-> maxFileSize, buffer |-> <<1, 2>>, category |-> "PROFILE",
       entityType |-> "USER", entityId |-> "e1", uploadedBy |-> "w1"],
      [originalname |-> <<"r", ".", "p", "d", "f">>, mimetype |-> "application/pdf",
       size |-> 1, buffer |-> <<3>>, category |-> "DOCUMENT",
       entityType |-> "APPLICATION", entityId |-> "e2", uploadedBy |-> ""],
      [originalname |-> <<"b", ".", "p", "d", "f">>, mimetype |-> "application/pdf",
       size |-> maxFileSize + 1, buffer |-> <<1, 2>>, category |-> "DOCUMENT",
       entityType |-> "", entityId |-> "", uploadedBy |-> ""],
      [originalname |-> <<"c", ".", "z", "i", "p">>, mimetype |-> "application/zip",
       size |-> 1, buffer |-> <<3>>, category |-> "OTHER",
       entityType |-> "", entityId |-> "", uploadedBy |-> ""],
      [originalname |-> <<"d", ".", "z", "i", "p">>, mimetype |-> "application/zip",
       size |-> maxFileSize + 1, buffer |-> <<3>>, category |-> "OTHER",
       entityType |-> "", entityId |-> "", uploadedBy |-> ""] }

\* Uploads that validation lets through: one of every category, a value
\* outside the enum included, under a plain name; and uploads under a name
\* that holds directory parts, under the name ".." and under a name that
\* ends in "/".
CategoryInputs ==
    { [originalname |-> in[1], mimetype |-> "text/plain", size |-> 1,
       buffer |-> <<4>>, category |-> in[2],
       entityType |-> "", entityId |-> "", uploadedBy |-> ""] :
         in \in ( {<<"n", ".", "t", "x", "t">>}
                    \X (FileCategory \cup {"UNRECOGNIZED"}) )
                \cup ( { <<".", ".", "/", "x", ".", "s", "h">>,
                         <<".", ".">>,
                         <<"n", ".", "t", "/">> }
                       \X {"UNRECOGNIZED"} ) }

ValidInputs ==
    { in \in UploadInputs :
        in.size <= maxFileSize /\ in.mimetype \in DEFAULT_ALLOWED_MIME_TYPES }

NoInput ==
    [originalname |-> <<>>, mimetype |-> "", size |-> 0, buffer |-> <<>>,
     category |-> "", entityType |-> "", entityId |-> "", uploadedBy |-> ""]

\* A listFiles query that supplies no filter and leaves limit and offset at
\* their defaults.
NoFilter ==
    [category |-> "", entityType |-> "", entityId |-> "", uploadedBy |-> "",
     limit |-> 50, offset |-> 0]

\* An id the store never issues.
NoSuchId == "u0"

----------------------------------------------------------------------------
(* What a handler settles with: a value, or an exception with the message  *)
(* its throw site gives it                                                 *)

NoRecord ==
    [id |-> "", originalFilename |-> <<>>, storedFilename |-> "",
     mimetype |-> "", size |-> 0, category |-> "", entityType |-> "",
     entityId |-> "", uploadedBy |-> "", path |-> "", thumbnailPath |-> "",
     active |-> FALSE]

NoResult ==
    [exception |-> "", message |-> "", record |-> NoRecord, buffer |-> <<>>,
     removed |-> 0, data |-> <<>>, total |-> 0]

BadRequestException(message) ==
    [NoResult EXCEPT !.exception = "BadRequestException", !.message = message]

\* A throw site that raises a server error where the handler raises not found.
ServerErrorInstead(message) ==
    [NoResult EXCEPT !.exception = "InternalServerErrorException",
                     !.message = message]

NotFoundException(message) ==
    [NoResult EXCEPT !.exception = "NotFoundException", !.message = message]

InternalServerErrorException(message) ==
    [NoResult EXCEPT !.exception = "InternalServerErrorException",
                     !.message = message]

\* The error a rejected repository call carries; no handler wraps it where
\* no catch block is around the call.
QueryFailedError(message) ==
    [NoResult EXCEPT !.exception = "QueryFailedError", !.message = message]

\* The messages of the two validation failures.
sizeMessage ==
    "File size exceeds maximum allowed size of " \o ToString(maxFileSize)
        \o " bytes"

typeMessage(file) == "File type " \o file.mimetype \o " is not allowed"

\* The error kinds the specification names, as the code raises them.
PayloadTooLarge(result) ==
    /\ result.exception = "BadRequestException"
    /\ result.message = sizeMessage

UnsupportedType(result) ==
    /\ result.exception = "BadRequestException"
    /\ \E in \in UploadInputs : result.message = typeMessage(in)

NotFound(result) == result.exception = "NotFoundException"

StorageBackendError(result) ==
    result.exception = "InternalServerErrorException"

Succeeded(result) == result.exception = ""

----------------------------------------------------------------------------
(* The metadata store *)

RecordIds == { records[i].id : i \in 1..Len(records) }

\* Row number of the record with this id, 0 when there is none.
RowOf(table, id) ==
    LET rows == { i \in 1..Len(table) : table[i].id = id }
    IN  IF rows = {} THEN 0 ELSE CHOOSE i \in rows : TRUE

\* A findOne that leaves the active condition out of its where.
findOneAny(table, id) == RowOf(table, id)

\* A findOne that gives the record only while its blob is on disk.
findOneActiveOnDisk(table, id) ==
    LET i == RowOf(table, id)
    IN  IF i # 0 /\ table[i].active /\ table[i].path \in DOMAIN disk
          THEN i ELSE 0

\* repository.findOne({ where: { id, active: true } }): the row number, 0 for null.
findOneActive(table, id) ==
    LET i == RowOf(table, id)
    IN  IF i # 0 /\ table[i].active THEN i ELSE 0

\* The unique index on stored_filename and the primary key reject the insert.
violatesUnique(table, entity) ==
    \E i \in 1..Len(table) :
        \/ table[i].storedFilename = entity.storedFilename
        \/ table[i].id = entity.id

\* A find that loads the active rows only.
findActive(table) == SelectSeq(table, LAMBDA r : r.active)

\* repository.find(): every row, whatever its active flag.
find(table) == table

\* A save that resolves without writing the row.
saveNothing(table, id) == table

\* A save that deletes the row.
saveRemoves(table, id) == SelectSeq(table, LAMBDA r : r.id # id)

\* A save that writes the row back without its thumbnail path.
saveInactiveNoThumbnail(table, id) ==
    [ i \in 1..Len(table) |->
        IF table[i].id = id
          THEN [table[i] EXCEPT !.active = FALSE, !.thumbnailPath = ""]
          ELSE table[i] ]

\* A save that writes the opposite of the flag the row holds.
saveToggles(table, id) ==
    [ i \in 1..Len(table) |->
        IF table[i].id = id THEN [table[i] EXCEPT !.active = ~@] ELSE table[i] ]

\* repository.save of a loaded entity whose active was set to false.
saveInactive(table, id) ==
    [ i \in 1..Len(table) |->
        IF table[i].id = id THEN [table[i] EXCEPT !.active = FALSE] ELSE table[i] ]

----------------------------------------------------------------------------
(* The storage tree *)

\* A write that stops one byte short of the buffer.
writeFileShort(tree, path, buffer) ==
    (path :> SubSeq(buffer, 1, Len(buffer) - 1)) @@ tree

\* A write after which the file is the only one in the tree.
writeFileAlone(tree, path, buffer) == (path :> buffer)

\* fs.writeFile resolved: the file at path holds the buffer.
writeFile(tree, path, buffer) == (path :> buffer) @@ tree

\* An unlink that resolves and leaves the file where it is.
unlinkNothing(tree, path) == tree

\* The beginnings of a buffer that an interrupted write can leave in a file.
Truncated(buffer) == { SubSeq(buffer, 1, n) : n \in 0..(Len(buffer) - 1) }

\* fs.unlink resolved: no file at path.
unlink(tree, path) == [q \in DOMAIN tree \ {path} |-> tree[q]]

\* fs.access resolves when the file is there and rejects when it is not.
accessible(tree, path) == path \in DOMAIN tree

----------------------------------------------------------------------------
(* Request slots *)

IdleProc ==
    [op |-> "idle", pc |-> "idle", input |-> NoInput, id |-> "",
     storedFilename |-> "", relativePath |-> "", thumbnailPath |-> "",
     query |-> NoFilter, error |-> "", metadata |-> NoRecord,
     allMetadata |-> <<>>, removed |-> 0, examined |-> 0]

\* A slot takes a request when no handler runs in it and the process is up.
Free(p) == proc[p].pc = "idle" /\ boot.pc # "failed"

NoResponse ==
    [op |-> "none", input |-> NoInput, id |-> "", query |-> NoFilter,
     relativePath |-> "", unlinked |-> FALSE, result |-> NoResult]

\* The handler in slot p settles with this result.
Settled(p, call, result) ==
    [NoResponse EXCEPT !.op = call.op, !.input = call.input, !.id = call.id,
                       !.query = call.query,
                       !.relativePath = call.relativePath, !.result = result]

\* History: the sweeps that ran back to back with no other step among them.
NoSweeps == [owner |-> 0, before |-> <<>>, runs |-> <<>>]

Disturb == sweepLog' = NoSweeps

----------------------------------------------------------------------------
(* uploadFile *)

\* A size check that also turns away a file of exactly the maximum size.
exceedsOrEqualsMaxFileSize(file) == file.size >= maxFileSize

\* A size check that comes after the type check: it turns away only files
\* whose mimetype is allowed.
exceedsMaxFileSizeOfAllowedType(file) ==
    file.size > maxFileSize /\ file.mimetype \in allowedMimeTypes

exceedsMaxFileSize(file) == file.size > maxFileSize

\* A type check that looks at the list only when the list is empty.
mimetypeCheckedWhenListEmpty(file) ==
    allowedMimeTypes = {} /\ file.mimetype \notin allowedMimeTypes

mimetypeNotAllowed(file) ==
    allowedMimeTypes # {} /\ file.mimetype \notin allowedMimeTypes

\* An entity whose path is the stored file name without its subdirectory.
createEntityBarePath(u, id) ==
    [id |-> id,
     originalFilename |-> u.input.originalname,
     storedFilename |-> u.storedFilename,
     mimetype |-> u.input.mimetype,
     size |-> u.input.size,
     category |-> u.input.category,
     entityType |-> u.input.entityType,
     entityId |-> u.input.entityId,
     uploadedBy |-> u.input.uploadedBy,
     path |-> u.storedFilename,
     thumbnailPath |-> u.thumbnailPath,
     active |-> TRUE]

\* An entity that names a thumbnail for every image, derived or not.
createEntityNamesThumbnail(u, id) ==
    [id |-> id,
     originalFilename |-> u.input.originalname,
     storedFilename |-> u.storedFilename,
     mimetype |-> u.input.mimetype,
     size |-> u.input.size,
     category |-> u.input.category,
     entityType |-> u.input.entityType,
     entityId |-> u.input.entityId,
     uploadedBy |-> u.input.uploadedBy,
     path |-> u.relativePath,
     thumbnailPath |-> IF startsWithImage(u.input.mimetype)
                         THEN pathJoin("thumbnails", "thumb_" \o u.storedFilename)
                         ELSE "",
     active |-> TRUE]

\* The entity repository.create builds; BeforeInsert gives it its id and the
\* column default makes it active.
createEntity(u, id) ==
    [id |-> id,
     originalFilename |-> u.input.originalname,
     storedFilename |-> u.storedFilename,
     mimetype |-> u.input.mimetype,
     size |-> u.input.size,
     category |-> u.input.category,
     entityType |-> u.input.entityType,
     entityId |-> u.input.entityId,
     uploadedBy |-> u.input.uploadedBy,
     path |-> u.relativePath,
     thumbnailPath |-> u.thumbnailPath,
     active |-> TRUE]

\* Validation, then the synchronous part up to the call of fs.writeFile.
uploadFile(p, in) ==
    LET call == [IdleProc EXCEPT !.op = "uploadFile", !.input = in]
    IN
    /\ Free(p)
    /\ uuids < MaxUuids
    /\ IF exceedsMaxFileSize(in)
         THEN /\ response' = Settled(p, call, BadRequestException(sizeMessage))
              /\ UNCHANGED <<proc, uuids>>
       ELSE IF mimetypeNotAllowed(in)
         THEN /\ response' = Settled(p, call, BadRequestException(typeMessage(in)))
              /\ UNCHANGED <<proc, uuids>>
       ELSE LET storedFilename == uuidv4(uuids + 1) \o extname(in.originalname)
                subdir == getSubdirectoryByCategory(in.category)
            IN  /\ proc' = [proc EXCEPT ![p] = [call EXCEPT
                      !.pc = "writeFile",
                      !.storedFilename = storedFilename,
                      !.relativePath = pathJoin(subdir, storedFilename)]]
                /\ uuids' = uuids + 1
                /\ response' = NoResponse
    /\ Disturb
    /\ UNCHANGED <<records, disk>>
    /\ UNCHANGED <<configMimeTypes, dirs, boot>>

\* A write whose rejection is swallowed: the upload goes on to its save.
uploadFileWriteSwallows(p) ==
    /\ proc[p].op = "uploadFile" /\ proc[p].pc = "writeFile"
    /\ \/ /\ disk' = writeFile(disk, proc[p].relativePath, proc[p].input.buffer)
          /\ proc' = [proc EXCEPT ![p].pc =
                IF startsWithImage(proc[p].input.mimetype)
                  THEN "generateThumbnail" ELSE "save"]
       \/ /\ proc' = [proc EXCEPT ![p].pc = "save"]
          /\ UNCHANGED disk
    /\ response' = NoResponse
    /\ Disturb
    /\ UNCHANGED <<records, uuids>>
    /\ UNCHANGED <<configMimeTypes, dirs, boot>>

\* await fs.writeFile(fullPath, file.buffer) settles: the whole buffer is at
\* the path, or the write rejected.  A write that rejects for want of the
\* directory puts no file there; one that rejects later (a full or failing
\* disk) leaves no file or a file that holds a beginning of the buffer.
uploadFileWrite(p) ==
    /\ proc[p].op = "uploadFile" /\ proc[p].pc = "writeFile"
    /\ LET subdir == getSubdirectoryByCategory(proc[p].input.category)
       IN  \/ /\ hasDirectory(dirs, subdir)
              /\ disk' = writeFile(disk, proc[p].relativePath,
                                   proc[p].input.buffer)
              /\ proc' = [proc EXCEPT ![p].pc =
                    IF startsWithImage(proc[p].input.mimetype)
                      THEN "generateThumbnail" ELSE "save"]
           \/ /\ proc' = [proc EXCEPT ![p].pc = "unlink",
                    ![p].error = IF hasDirectory(dirs, subdir)
                                   THEN "ENOSPC" ELSE "ENOENT"]
              /\ \/ UNCHANGED disk
                 \/ /\ hasDirectory(dirs, subdir)
                    /\ \E part \in Truncated(proc[p].input.buffer) :
                          disk' = writeFile(disk, proc[p].relativePath, part)
    /\ response' = NoResponse
    /\ Disturb
    /\ UNCHANGED <<records, uuids>>
    /\ UNCHANGED <<configMimeTypes, dirs, boot>>

\* A derivation that writes the thumbnail and returns null all the same.
generateThumbnailForgetsPath(p) ==
    /\ proc[p].op = "uploadFile" /\ proc[p].pc = "generateThumbnail"
    /\ disk' = writeFile(disk,
                         pathJoin("thumbnails", "thumb_" \o proc[p].storedFilename),
                         thumbnailOf(proc[p].input.buffer))
    /\ proc' = [proc EXCEPT ![p].pc = "save"]
    /\ response' = NoResponse
    /\ Disturb
    /\ UNCHANGED <<records, uuids>>
    /\ UNCHANGED <<configMimeTypes, dirs, boot>>

\* A derivation whose failure is thrown on into the catch block of the upload.
generateThumbnailFatal(p) ==
    /\ proc[p].op = "uploadFile" /\ proc[p].pc = "generateThumbnail"
    /\ LET relativePath ==
               pathJoin("thumbnails", "thumb_" \o proc[p].storedFilename)
       IN  \/ /\ disk' = writeFile(disk, relativePath,
                                   thumbnailOf(proc[p].input.buffer))
              /\ proc' = [proc EXCEPT ![p].pc = "save",
                                      ![p].thumbnailPath = relativePath]
           \/ /\ proc' = [proc EXCEPT ![p].pc = "unlink", ![p].error = "sharp"]
              /\ UNCHANGED disk
    /\ response' = NoResponse
    /\ Disturb
    /\ UNCHANGED <<records, uuids>>
    /\ UNCHANGED <<configMimeTypes, dirs, boot>>

\* await this.generateThumbnail(file.buffer, storedFilename) settles: sharp
\* wrote the derivative, or threw and null came back.  A toFile that throws
\* once it has opened its file leaves a beginning of the derivative there.
generateThumbnail(p) ==
    /\ proc[p].op = "uploadFile" /\ proc[p].pc = "generateThumbnail"
    /\ LET relativePath ==
               pathJoin("thumbnails", "thumb_" \o proc[p].storedFilename)
       IN  \/ /\ hasDirectory(dirs, "thumbnails")
              /\ disk' = writeFile(disk, relativePath,
                                   thumbnailOf(proc[p].input.buffer))
              /\ proc' = [proc EXCEPT ![p].pc = "save",
                                      ![p].thumbnailPath = relativePath]
           \/ /\ proc' = [proc EXCEPT ![p].pc = "save"]
              /\ \/ UNCHANGED disk
                 \/ /\ hasDirectory(dirs, "thumbnails")
                    /\ \E part \in Truncated(thumbnailOf(proc[p].input.buffer)) :
                          disk' = writeFile(disk, relativePath, part)
    /\ response' = NoResponse
    /\ Disturb
    /\ UNCHANGED <<records, uuids>>
    /\ UNCHANGED <<configMimeTypes, dirs, boot>>

\* A save into a table that has no unique index, of a file stored under the
\* name it was uploaded with.
uploadFileSaveAsNamed(p) ==
    /\ proc[p].op = "uploadFile" /\ proc[p].pc = "save"
    /\ LET entity == [createEntity(proc[p], uuidv4(uuids + 1)) EXCEPT
                         !.storedFilename = Join(proc[p].input.originalname)]
       IN  /\ records' = Append(records, entity)
           /\ proc' = [proc EXCEPT ![p] = IdleProc]
           /\ response' = Settled(p, proc[p], [NoResult EXCEPT !.record = entity])
    /\ uuids' = uuids + 1
    /\ Disturb
    /\ UNCHANGED disk
    /\ UNCHANGED <<configMimeTypes, dirs, boot>>

\* await this.fileMetadataRepository.save(fileMetadata) settles.
uploadFileSave(p) ==
    /\ proc[p].op = "uploadFile" /\ proc[p].pc = "save"
    /\ LET entity == createEntity(proc[p], uuidv4(uuids + 1))
       IN  \/ /\ ~violatesUnique(records, entity)
              /\ records' = Append(records, entity)
              /\ proc' = [proc EXCEPT ![p] = IdleProc]
              /\ response' = Settled(p, proc[p],
                                     [NoResult EXCEPT !.record = entity])
           \/ /\ proc' = [proc EXCEPT ![p].pc = "unlink",
                                      ![p].error = "QueryFailedError"]
              /\ response' = NoResponse
              /\ UNCHANGED records
    /\ uuids' = uuids + 1
    /\ Disturb
    /\ UNCHANGED disk
    /\ UNCHANGED <<configMimeTypes, dirs, boot>>

\* The catch block: await fs.unlink(fullPath) settles, its rejection (the
\* file is not there, or the removal failed) swallowed, and the
\* InternalServerErrorException is thrown.
uploadFileUnlink(p) ==
    /\ proc[p].op = "uploadFile" /\ proc[p].pc = "unlink"
    /\ \E removed \in BOOLEAN :
          /\ removed => accessible(disk, proc[p].relativePath)
          /\ disk' = IF removed THEN unlink(disk, proc[p].relativePath) ELSE disk
          /\ response' = [Settled(p, proc[p], InternalServerErrorException(
                              "Failed to upload file: " \o proc[p].error))
                            EXCEPT !.unlinked = removed]
    /\ proc' = [proc EXCEPT ![p] = IdleProc]
    /\ Disturb
    /\ UNCHANGED <<records, uuids>>
    /\ UNCHANGED <<configMimeTypes, dirs, boot>>

----------------------------------------------------------------------------
(* deleteFile *)

\* findOne settles: NotFoundException when it gave null, else the entity is
\* held with active set to false and the save is under way.
deleteFile(p, id) ==
    LET call == [IdleProc EXCEPT !.op = "deleteFile", !.id = id]
    IN
    /\ Free(p)
    /\ IF findOneActive(records, id) = 0
         THEN /\ response' = Settled(p, call, NotFoundException("File not found"))
              /\ UNCHANGED proc
         ELSE /\ proc' = [proc EXCEPT ![p] = [call EXCEPT !.pc = "save"]]
              /\ response' = NoResponse
    /\ Disturb
    /\ UNCHANGED <<records, disk, uuids>>
    /\ UNCHANGED <<configMimeTypes, dirs, boot>>

\* await this.fileMetadataRepository.save(metadata) settles: the row is
\* written, or the save rejected and its error leaves the handler.
deleteFileSave(p) ==
    /\ proc[p].op = "deleteFile" /\ proc[p].pc = "save"
    /\ \/ /\ records' = saveInactive(records, proc[p].id)
          /\ response' = Settled(p, proc[p], NoResult)
       \/ /\ response' = Settled(p, proc[p], QueryFailedError("save rejected"))
          /\ UNCHANGED records
    /\ proc' = [proc EXCEPT ![p] = IdleProc]
    /\ Disturb
    /\ UNCHANGED <<disk, uuids>>
    /\ UNCHANGED <<configMimeTypes, dirs, boot>>

----------------------------------------------------------------------------
(* getFile, getFileMetadata, listFiles *)

\* findOne settles: NotFoundException when it gave null, else the read of the
\* blob is under way.
getFile(p, id) ==
    LET call == [IdleProc EXCEPT !.op = "getFile", !.id = id]
        i == findOneActive(records, id)
    IN
    /\ Free(p)
    /\ IF i = 0
         THEN /\ response' = Settled(p, call, NotFoundException("File not found"))
              /\ UNCHANGED proc
         ELSE /\ proc' = [proc EXCEPT ![p] = [call EXCEPT
                    !.pc = "readFile", !.metadata = records[i]]]
              /\ response' = NoResponse
    /\ Disturb
    /\ UNCHANGED <<records, disk, uuids>>
    /\ UNCHANGED <<configMimeTypes, dirs, boot>>

\* await fs.readFile(fullPath) settles.
getFileRead(p) ==
    /\ proc[p].op = "getFile" /\ proc[p].pc = "readFile"
    /\ response' = Settled(p, proc[p],
          IF accessible(disk, proc[p].metadata.path)
            THEN [NoResult EXCEPT !.record = proc[p].metadata,
                                  !.buffer = disk[proc[p].metadata.path]]
            ELSE NotFoundException("File not found on disk"))
    /\ proc' = [proc EXCEPT ![p] = IdleProc]
    /\ Disturb
    /\ UNCHANGED <<records, disk, uuids>>
    /\ UNCHANGED <<configMimeTypes, dirs, boot>>

\* getThumbnail: findOne settles; NotFoundException when it gave null or an
\* entity without thumbnailPath, else the read of the thumbnail is under way.
getThumbnail(p, id) ==
    LET call == [IdleProc EXCEPT !.op = "getThumbnail", !.id = id]
        i == findOneActive(records, id)
    IN
    /\ Free(p)
    /\ IF i = 0 \/ records[i].thumbnailPath = ""
         THEN /\ response' = Settled(p, call,
                                     NotFoundException("Thumbnail not found"))
              /\ UNCHANGED proc
         ELSE /\ proc' = [proc EXCEPT ![p] = [call EXCEPT
                    !.pc = "readFile", !.metadata = records[i]]]
              /\ response' = NoResponse
    /\ Disturb
    /\ UNCHANGED <<records, disk, uuids>>
    /\ UNCHANGED <<configMimeTypes, dirs, boot>>

\* A read of the thumbnail that also wants the blob of the record on disk.
getThumbnailReadNeedsBlob(p) ==
    /\ proc[p].op = "getThumbnail" /\ proc[p].pc = "readFile"
    /\ response' = Settled(p, proc[p],
          IF /\ accessible(disk, proc[p].metadata.thumbnailPath)
             /\ accessible(disk, proc[p].metadata.path)
            THEN [NoResult EXCEPT !.record = proc[p].metadata,
                                  !.buffer = disk[proc[p].metadata.thumbnailPath]]
            ELSE NotFoundException("Thumbnail not found on disk"))
    /\ proc' = [proc EXCEPT ![p] = IdleProc]
    /\ Disturb
    /\ UNCHANGED <<records, disk, uuids>>
    /\ UNCHANGED <<configMimeTypes, dirs, boot>>

\* await fs.readFile(fullPath) of the thumbnail settles.
getThumbnailRead(p) ==
    /\ proc[p].op = "getThumbnail" /\ proc[p].pc = "readFile"
    /\ response' = Settled(p, proc[p],
          IF accessible(disk, proc[p].metadata.thumbnailPath)
            THEN [NoResult EXCEPT !.record = proc[p].metadata,
                                  !.buffer = disk[proc[p].metadata.thumbnailPath]]
            ELSE NotFoundException("Thumbnail not found on disk"))
    /\ proc' = [proc EXCEPT ![p] = IdleProc]
    /\ Disturb
    /\ UNCHANGED <<records, disk, uuids>>
    /\ UNCHANGED <<configMimeTypes, dirs, boot>>

getFileMetadata(p, id) ==
    LET call == [IdleProc EXCEPT !.op = "getFileMetadata", !.id = id]
        i == findOneActive(records, id)
    IN
    /\ Free(p)
    /\ response' = Settled(p, call,
          IF i = 0 THEN NotFoundException("File not found")
                   ELSE [NoResult EXCEPT !.record = records[i]])
    /\ Disturb
    /\ UNCHANGED <<records, disk, proc, uuids>>
    /\ UNCHANGED <<configMimeTypes, dirs, boot>>

\* A WHERE that joins the supplied filters with OR.
matchesAnySupplied(r, query) ==
    /\ r.active
    /\ \/ /\ query.category = "" /\ query.entityType = ""
          /\ query.entityId = "" /\ query.uploadedBy = ""
       \/ query.category # "" /\ r.category = query.category
       \/ query.entityType # "" /\ r.entityType = query.entityType
       \/ query.entityId # "" /\ r.entityId = query.entityId
       \/ query.uploadedBy # "" /\ r.uploadedBy = query.uploadedBy

\* The rows of the query builder's WHERE: active, and equal to every filter
\* that was supplied.
matches(r, query) ==
    /\ r.active
    /\ query.category # "" => r.category = query.category
    /\ query.entityType # "" => r.entityType = query.entityType
    /\ query.entityId # "" => r.entityId = query.entityId
    /\ query.uploadedBy # "" => r.uploadedBy = query.uploadedBy

\* An ORDER BY that leaves the rows in insertion order.
SameOrder(seq) == seq

\* orderBy uploadedAt DESC: the latest insert first.
Reverse(seq) == [ i \in 1..Len(seq) |-> seq[Len(seq) + 1 - i] ]

Min(a, b) == IF a < b THEN a ELSE b

\* getManyAndCount after take(limit) and skip(offset).
listFilesResult(table, query) ==
    LET matching == SelectSeq(Reverse(table), LAMBDA r : matches(r, query))
    IN  [data  |-> SubSeq(matching, query.offset + 1,
                          Min(query.offset + query.limit, Len(matching))),
         total |-> Len(matching)]

ListQueries ==
    { NoFilter,
      [NoFilter EXCEPT !.category = "PROFILE", !.limit = 2],
      [NoFilter EXCEPT !.entityType = "USER", !.entityId = "e1",
                       !.uploadedBy = "w1"],
      [NoFilter EXCEPT !.category = "DOCUMENT", !.entityType = "USER"],
      [NoFilter EXCEPT !.limit = 1, !.offset = 1] }

listFiles(p, query) ==
    LET call == [IdleProc EXCEPT !.op = "listFiles", !.query = query]
        found == listFilesResult(records, query)
    IN
    /\ Free(p)
    /\ response' = Settled(p, call,
          [NoResult EXCEPT !.data = found.data, !.total = found.total])
    /\ Disturb
    /\ UNCHANGED <<records, disk, proc, uuids>>
    /\ UNCHANGED <<configMimeTypes, dirs, boot>>

----------------------------------------------------------------------------
(* cleanupOrphanedFiles *)

\* History kept for a sweep that no other step has interleaved with.
LogStart(p) ==
    IF \A q \in Procs \ {p} : Free(q)
      THEN [owner |-> p, before |-> records, runs |-> sweepLog.runs]
      ELSE NoSweeps

LogStep(p) == IF sweepLog.owner = p THEN sweepLog ELSE NoSweeps

LogReturn(log, after, removed, examined) ==
    LET run == [before |-> log.before, after |-> after, disk |-> disk,
                removed |-> removed, examined |-> examined]
    IN  IF log.owner = 0 THEN NoSweeps
        ELSE [owner |-> 0, before |-> <<>>,
              runs |-> IF log.runs = <<>> THEN <<run>>
                       ELSE <<log.runs[Len(log.runs)], run>>]

\* The loop moves past the record it has dealt with; after the last one the
\* handler returns { removed }.
cleanupAdvance(p, removed, after, log) ==
    LET rest == Tail(proc[p].allMetadata)
    IN  IF rest = <<>>
          THEN /\ proc' = [proc EXCEPT ![p] = IdleProc]
               /\ response' = Settled(p, proc[p],
                                      [NoResult EXCEPT !.removed = removed])
               /\ sweepLog' = LogReturn(log, after, removed,
                                        proc[p].examined + 1)
          ELSE /\ proc' = [proc EXCEPT ![p].pc = "access",
                                       ![p].allMetadata = rest,
                                       ![p].removed = removed,
                                       ![p].examined = @ + 1]
               /\ response' = NoResponse
               /\ sweepLog' = log

\* await this.fileMetadataRepository.find() settles and the loop begins.
cleanupOrphanedFiles(p) ==
    LET call == [IdleProc EXCEPT !.op = "cleanupOrphanedFiles"]
    IN
    /\ Free(p)
    /\ IF find(records) = <<>>
         THEN /\ response' = Settled(p, call, NoResult)
              /\ sweepLog' = LogReturn(LogStart(p), records, 0, 0)
              /\ UNCHANGED proc
         ELSE /\ proc' = [proc EXCEPT ![p] = [call EXCEPT
                    !.pc = "access", !.allMetadata = find(records)]]
              /\ response' = NoResponse
              /\ sweepLog' = LogStart(p)
    /\ UNCHANGED <<records, disk, uuids>>
    /\ UNCHANGED <<configMimeTypes, dirs, boot>>

\* A count that also takes in the files on disk that no record names.
countRemovedWithOrphans(removed, metadata) ==
    removed + 1
      + Cardinality({ path \in DOMAIN disk :
                        \A i \in 1..Len(records) :
                            /\ records[i].path # path
                            /\ records[i].thumbnailPath # path })

\* removed++ in the catch block, for the entity whose file was not found.
countRemoved(removed, metadata) == removed + 1

\* A turn of the loop that makes the record active again when its file is
\* found.
cleanupStepReactivates(p) ==
    /\ proc[p].op = "cleanupOrphanedFiles" /\ proc[p].pc = "access"
    /\ LET metadata == Head(proc[p].allMetadata)
       IN  IF accessible(disk, metadata.path)
             THEN /\ records' = [ i \in 1..Len(records) |->
                        IF records[i].id = metadata.id
                          THEN [records[i] EXCEPT !.active = TRUE]
                          ELSE records[i] ]
                  /\ cleanupAdvance(p, proc[p].removed, records', LogStep(p))
             ELSE /\ proc' = [proc EXCEPT ![p].pc = "save"]
                  /\ response' = NoResponse
                  /\ sweepLog' = LogStep(p)
                  /\ UNCHANGED records
    /\ UNCHANGED <<disk, uuids>>
    /\ UNCHANGED <<configMimeTypes, dirs, boot>>

\* await fs.access(fullPath) settles for the record at the head of the loop:
\* the loop moves on when the file is there, and the catch block sets
\* metadata.active = false and calls save when it is not.
cleanupStep(p) ==
    /\ proc[p].op = "cleanupOrphanedFiles" /\ proc[p].pc = "access"
    /\ LET metadata == Head(proc[p].allMetadata)
       IN  IF accessible(disk, metadata.path)
             THEN cleanupAdvance(p, proc[p].removed, records, LogStep(p))
             ELSE /\ proc' = [proc EXCEPT ![p].pc = "save"]
                  /\ response' = NoResponse
                  /\ sweepLog' = LogStep(p)
    /\ UNCHANGED <<records, disk, uuids>>
    /\ UNCHANGED <<configMimeTypes, dirs, boot>>

\* await this.fileMetadataRepository.save(metadata) in the catch block
\* settles: the row is written and removed++ runs, or the save rejected and
\* its error leaves the catch block and the handler.
cleanupSave(p) ==
    /\ proc[p].op = "cleanupOrphanedFiles" /\ proc[p].pc = "save"
    /\ LET metadata == Head(proc[p].allMetadata)
       IN  \/ /\ records' = saveInactive(records, metadata.id)
              /\ cleanupAdvance(p, countRemoved(proc[p].removed, metadata),
                                records', LogStep(p))
           \/ /\ proc' = [proc EXCEPT ![p] = IdleProc]
              /\ response' = Settled(p, proc[p],
                                     QueryFailedError("save rejected"))
              /\ Disturb
              /\ UNCHANGED records
    /\ UNCHANGED <<disk, uuids>>
    /\ UNCHANGED <<configMimeTypes, dirs, boot>>

----------------------------------------------------------------------------
(* An actor other than the service removes a record's blob from the tree.  *)

ExternalRemoveBlob(path) ==
    /\ accessible(disk, path)
    /\ \E i \in 1..Len(records) : records[i].path = path
    /\ disk' = unlink(disk, path)
    /\ response' = NoResponse
    /\ Disturb
    /\ UNCHANGED <<records, proc, uuids>>
    /\ UNCHANGED <<configMimeTypes, dirs, boot>>

\* The same actor removes the thumbnail a record names.
ExternalRemoveThumbnail(path) ==
    /\ accessible(disk, path)
    /\ \E i \in 1..Len(records) : records[i].thumbnailPath = path
    /\ disk' = unlink(disk, path)
    /\ response' = NoResponse
    /\ Disturb
    /\ UNCHANGED <<records, proc, uuids>>
    /\ UNCHANGED <<configMimeTypes, dirs, boot>>

\* The same actor puts a file back at the path of a record whose blob is
\* gone (a restore from backup); the bytes are whatever the actor has.
RestoredBytes == <<0>>

ExternalRestoreBlob(path) ==
    /\ ~accessible(disk, path)
    /\ \E i \in 1..Len(records) : records[i].path = path
    /\ disk' = writeFile(disk, path, RestoredBytes)
    /\ response' = NoResponse
    /\ Disturb
    /\ UNCHANGED <<records, proc, uuids>>
    /\ UNCHANGED <<configMimeTypes, dirs, boot>>

----------------------------------------------------------------------------
(* The process ends while handlers, any number of them, are at an await,   *)
(* and is started again.  No statement of a handler runs any more, catch   *)
(* blocks included.  The operation each of them awaited has not taken      *)
(* place, has taken place, or, for a write, has got part of the way.       *)

\* The tree, the store and the identifiers drawn, as the process leaves them.
Remains(tree, table, drawn) ==
    [disk |-> tree, records |-> table, uuids |-> drawn]

\* What the awaited operation of the handler u can leave of what was there,
\* the directories of the tree being those in made.
Interrupted(u, was, made) ==
    LET thumbnail == pathJoin("thumbnails", "thumb_" \o u.storedFilename)
        entity == createEntity(u, uuidv4(was.uuids + 1))
    IN  {was}
        \cup ( IF /\ u.op = "uploadFile" /\ u.pc = "writeFile"
                  /\ hasDirectory(made,
                                  getSubdirectoryByCategory(u.input.category))
                 THEN { [was EXCEPT !.disk =
                           writeFile(was.disk, u.relativePath,
                                     SubSeq(u.input.buffer, 1, n))] :
                        n \in 0..Len(u.input.buffer) }
                 ELSE {} )
        \cup ( IF /\ u.op = "uploadFile" /\ u.pc = "generateThumbnail"
                  /\ hasDirectory(made, "thumbnails")
                 THEN { [was EXCEPT !.disk =
                           writeFile(was.disk, thumbnail,
                                     SubSeq(thumbnailOf(u.input.buffer), 1, n))] :
                        n \in 0..Len(thumbnailOf(u.input.buffer)) }
                 ELSE {} )
        \cup ( IF /\ u.op = "uploadFile" /\ u.pc = "save"
                  /\ ~violatesUnique(was.records, entity)
                 THEN { [was EXCEPT !.records = Append(was.records, entity),
                                    !.uuids = was.uuids + 1] }
                 ELSE {} )
        \cup ( IF /\ u.op = "uploadFile" /\ u.pc = "unlink"
                  /\ accessible(was.disk, u.relativePath)
                 THEN { [was EXCEPT !.disk = unlink(was.disk, u.relativePath)] }
                 ELSE {} )
        \cup ( IF u.op = "deleteFile" /\ u.pc = "save"
                 THEN { [was EXCEPT !.records = saveInactive(was.records, u.id)] }
                 ELSE {} )
        \cup ( IF u.op = "cleanupOrphanedFiles" /\ u.pc = "save"
                 THEN { [was EXCEPT !.records =
                           saveInactive(was.records, Head(u.allMetadata).id)] }
                 ELSE {} )

\* The orders in which the awaited operations of the slots can have reached
\* the tree and the store.
Orders ==
    { order \in [1..Cardinality(Procs) -> Procs] :
        \A a, b \in 1..Cardinality(Procs) : a # b => order[a] # order[b] }

\* What the awaited operations of the handlers in these slots, taken in this
\* order, can leave of what was there; a slot with no handler leaves it all.
RECURSIVE InterruptedAll(_, _, _)
InterruptedAll(order, was, made) ==
    IF order = <<>> THEN {was}
    ELSE UNION { InterruptedAll(Tail(order), left, made) :
                 left \in Interrupted(proc[Head(order)], was, made) }

\* The process ends: every slot is empty afterwards, and the tree, the store
\* and the identifiers drawn are what the handlers in flight have left, their
\* writes having found the directories in made.
Killed(made) ==
    /\ proc' = [q \in Procs |-> IdleProc]
    /\ \E order \in Orders :
         \E left \in InterruptedAll(order, Remains(disk, records, uuids),
                                     made) :
            /\ disk' = left.disk
            /\ records' = left.records
            /\ uuids' = left.uuids

\* The directories the ended process can leave: the fs.mkdir(dir, {
\* recursive: true }) that its loop was awaiting has made nothing, the upload
\* path alone, or the upload path and the directory.
MkdirInterrupted ==
    {dirs}
    \cup ( IF boot.pc = "mkdir"
             THEN {dirs \cup {"."}, dirs \cup {".", Head(boot.rest)}}
             ELSE {} )

\* The constructor of the process started again has called
\* ensureUploadDirectories, which is at its first await, over the
\* directories the ended process left.
Restarted(made) ==
    /\ boot' = [pc |-> "access", rest |-> directories]
    /\ dirs' = made

\* A crash whose in-flight upload has its blob taken back off the disk.
CrashRollsBack(p) ==
    /\ proc[p].pc # "idle"
    /\ boot.pc # "failed"
    /\ proc' = [q \in Procs |-> IdleProc]
    /\ response' = [Settled(p, proc[p], NoResult) EXCEPT !.op = "crash"]
    /\ disk' = unlink(disk, proc[p].relativePath)
    /\ \E made \in MkdirInterrupted : Restarted(made)
    /\ Disturb
    /\ UNCHANGED <<records, uuids>>
    /\ UNCHANGED configMimeTypes

\* The process ends with the handler of slot p, and any others, in flight,
\* and is started again: the constructor runs and requests are served while
\* ensureUploadDirectories goes through its loop.  The mkdir of the loop
\* and the operations of the handlers were under way together: a write can
\* have reached the tree after the mkdir made its directory, and then has
\* left a file there, or before, and then has left nothing.  The response
\* names the call of slot p.
Crash(p) ==
    /\ proc[p].pc # "idle"
    /\ boot.pc # "failed"
    /\ response' = [Settled(p, proc[p], NoResult) EXCEPT !.op = "crash"]
    /\ \E made \in MkdirInterrupted :
          /\ Killed(made)
          /\ Restarted(made)
    /\ Disturb
    /\ UNCHANGED configMimeTypes

----------------------------------------------------------------------------
(* ensureUploadDirectories, which the constructor calls without awaiting it *)

\* The loop of ensureUploadDirectories was left by a rejection that ended
\* the process.
Failed == [pc |-> "failed", rest |-> <<>>]

\* The loop was left by a rejection in a process that runs on (a runtime
\* that only warns of an unhandled rejection).
Abandoned == [pc |-> "abandoned", rest |-> <<>>]

\* await fs.access(dir) settles for the directory at the head of the loop.
ensureAccess ==
    /\ boot.pc = "access"
    /\ boot' = IF Head(boot.rest) \in dirs
                THEN IF Tail(boot.rest) = <<>> THEN Ensured
                     ELSE [boot EXCEPT !.rest = Tail(@)]
                ELSE [boot EXCEPT !.pc = "mkdir"]
    /\ response' = NoResponse
    /\ Disturb
    /\ UNCHANGED <<records, disk, proc, uuids, configMimeTypes, dirs>>

\* await fs.mkdir(dir, { recursive: true }) settles.  When it resolves the
\* directory and the upload path above it exist.  When it rejects nothing
\* catches the rejection: the loop is left with the remaining directories
\* not made, and the unhandled rejection either is only warned of, the
\* process running on, or ends the process (the default of the runtime),
\* with what the request in flight was awaiting interrupted.
ensureMkdir ==
    /\ boot.pc = "mkdir"
    /\ \/ /\ dirs' = dirs \cup {".", Head(boot.rest)}
          /\ boot' = IF Tail(boot.rest) = <<>> THEN Ensured
                      ELSE [pc |-> "access", rest |-> Tail(boot.rest)]
          /\ response' = NoResponse
          /\ UNCHANGED <<records, disk, proc, uuids>>
       \/ /\ boot' = Abandoned
          /\ response' = NoResponse
          /\ UNCHANGED <<records, disk, proc, uuids, dirs>>
       \/ /\ boot' = Failed
          /\ UNCHANGED dirs
          /\ Killed(dirs)
          /\ IF \A q \in Procs : proc[q].pc = "idle"
               THEN response' = NoResponse
               ELSE \E p \in Procs :
                       /\ proc[p].pc # "idle"
                       /\ response' = [Settled(p, proc[p], NoResult)
                                         EXCEPT !.op = "crash"]
    /\ Disturb
    /\ UNCHANGED configMimeTypes

\* The process that the unhandled rejection ended is started again: the
\* constructor runs and calls ensureUploadDirectories.
constructor ==
    /\ boot.pc = "failed"
    /\ boot' = [pc |-> "access", rest |-> directories]
    /\ response' = NoResponse
    /\ Disturb
    /\ UNCHANGED <<records, disk, proc, uuids, configMimeTypes, dirs>>

\* The service is constructed with nothing configured, over an upload path
\* whose directories exist, and ensureUploadDirectories has found them.
Init ==
    /\ records = <<>>
    /\ disk = << >>
    /\ proc = [p \in Procs |-> IdleProc]
    /\ uuids = 0
    /\ response = NoResponse
    /\ sweepLog = NoSweeps
    /\ configMimeTypes = <<>>
    /\ dirs = { directories[k] : k \in 1..Len(directories) }
    /\ boot = Ensured

\* No request is in flight.
Quiet == \A p \in Procs : Free(p)

\* The outside actor at work between requests.
Env ==
    \/ Quiet /\ \E path \in DOMAIN disk : ExternalRemoveBlob(path)
    \/ Quiet /\ \E path \in DOMAIN disk : ExternalRemoveThumbnail(path)

\* Requests one at a time, of every handler, and the outside actor between
\* them.
Next ==
    \/ \E p \in Solo, in \in UploadInputs : uploadFile(p, in)
    \/ \E p \in Solo : uploadFileWrite(p)
    \/ \E p \in Solo : generateThumbnail(p)
    \/ \E p \in Solo : uploadFileSave(p)
    \/ \E p \in Solo : uploadFileUnlink(p)
    \/ \E p \in Solo, id \in RecordIds \cup {NoSuchId} : deleteFile(p, id)
    \/ \E p \in Solo : deleteFileSave(p)
    \/ \E p \in Solo, id \in RecordIds \cup {NoSuchId} : getFile(p, id)
    \/ \E p \in Solo : getFileRead(p)
    \/ \E p \in Solo, id \in RecordIds \cup {NoSuchId} : getThumbnail(p, id)
    \/ \E p \in Solo : getThumbnailRead(p)
    \/ \E p \in Solo, id \in RecordIds \cup {NoSuchId} : getFileMetadata(p, id)
    \/ \E p \in Solo, query \in ListQueries : listFiles(p, query)
    \/ \E p \in Solo : cleanupOrphanedFiles(p)
    \/ \E p \in Solo : cleanupStep(p)
    \/ \E p \in Solo : cleanupSave(p)
    \/ Env

\* The uploads validation lets through that are not images.
DocumentInputs == { in \in ValidInputs : ~startsWithImage(in.mimetype) }

\* Requests overlapping, each advancing from one await to the next, of the
\* handlers that change the store or the tree; no outside actor.  The
\* uploads are those of documents that validation lets through and the
\* deletes name records of the store.  With no outside actor the file of
\* every record is on disk, so the fs.access of a sweep never rejects and
\* the save of its catch block is never awaited.
NextConc ==
    \/ \E p \in Procs, in \in DocumentInputs : uploadFile(p, in)
    \/ \E p \in Procs : uploadFileWrite(p)
    \/ \E p \in Procs : uploadFileSave(p)
    \/ \E p \in Procs : uploadFileUnlink(p)
    \/ \E p \in Procs, id \in RecordIds : deleteFile(p, id)
    \/ \E p \in Procs : deleteFileSave(p)
    \/ \E p \in Procs : cleanupOrphanedFiles(p)
    \/ \E p \in Procs : cleanupStep(p)

\* Uploads overlapping, of images and documents that validation lets
\* through, each advancing from one await to the next.
NextUploads ==
    \/ \E p \in Procs, in \in ValidInputs : uploadFile(p, in)
    \/ \E p \in Procs : uploadFileWrite(p)
    \/ \E p \in Procs : generateThumbnail(p)
    \/ \E p \in Procs : uploadFileSave(p)
    \/ \E p \in Procs : uploadFileUnlink(p)

\* Requests one at a time that upload files of every category, delete them
\* and sweep; the sweep finds every file, as no outside actor is at the tree.
NextCat ==
    \/ \E p \in Solo, in \in CategoryInputs : uploadFile(p, in)
    \/ \E p \in Solo : uploadFileWrite(p)
    \/ \E p \in Solo : uploadFileSave(p)
    \/ \E p \in Solo : uploadFileUnlink(p)
    \/ \E p \in Solo, id \in RecordIds : deleteFile(p, id)
    \/ \E p \in Solo : deleteFileSave(p)
    \/ \E p \in Solo : cleanupOrphanedFiles(p)
    \/ \E p \in Solo : cleanupStep(p)

\* The record and the files that the k-th upload of the profile image leaves
\* behind once it has returned: draw 2k-1 named the file, draw 2k the record.
ProfileImage == CHOOSE in \in UploadInputs : in.mimetype = "image/png"

StoredUpload(k) ==
    LET storedFilename == uuidv4(2 * k - 1) \o extname(ProfileImage.originalname)
    IN  [IdleProc EXCEPT
           !.op = "uploadFile", !.input = ProfileImage,
           !.storedFilename = storedFilename,
           !.relativePath =
               pathJoin(getSubdirectoryByCategory(ProfileImage.category),
                        storedFilename),
           !.thumbnailPath = pathJoin("thumbnails", "thumb_" \o storedFilename)]

StoredTable(n, deleted) ==
    [ k \in 1..n |->
        [createEntity(StoredUpload(k), uuidv4(2 * k)) EXCEPT
            !.active = k \notin deleted] ]

RECURSIVE StoredTree(_)
StoredTree(n) ==
    IF n = 0 THEN << >>
    ELSE writeFile(writeFile(StoredTree(n - 1), StoredUpload(n).relativePath,
                             ProfileImage.buffer),
                   StoredUpload(n).thumbnailPath, thumbnailOf(ProfileImage.buffer))

\* A service that has taken up to MaxRecords uploads of the profile image and
\* soft-deleted some of them.
InitList ==
    \E n \in 0..MaxRecords, deleted \in SUBSET (1..MaxRecords) :
        /\ deleted \subseteq 1..n
        /\ records = StoredTable(n, deleted)
        /\ disk = StoredTree(n)
        /\ uuids = 2 * n
        /\ proc = [p \in Procs |-> IdleProc]
        /\ response = NoResponse
        /\ sweepLog = NoSweeps
        /\ configMimeTypes = <<>>
        /\ dirs = { directories[k] : k \in 1..Len(directories) }
        /\ boot = Ensured

\* Pages of the profile listing, and the listing without filter.
PageQueries ==
    { [NoFilter EXCEPT !.category = "PROFILE", !.limit = limit, !.offset = offset] :
        limit \in {1, 2, 50}, offset \in {0, 1, 3} } \cup {NoFilter}

\* Listings and soft deletes of such a store, one request at a time.
NextList ==
    \/ \E p \in Solo, query \in PageQueries : listFiles(p, query)
    \/ \E p \in Solo, id \in RecordIds : deleteFile(p, id)
    \/ \E p \in Solo : deleteFileSave(p)

\* The service is constructed under any of the configurations.
InitConfig ==
    /\ records = <<>>
    /\ disk = << >>
    /\ proc = [p \in Procs |-> IdleProc]
    /\ uuids = 0
    /\ response = NoResponse
    /\ sweepLog = NoSweeps
    /\ configMimeTypes \in Configs
    /\ dirs = { directories[k] : k \in 1..Len(directories) }
    /\ boot = Ensured

\* Uploads one at a time.
NextConfig ==
    \/ \E p \in Solo, in \in UploadInputs : uploadFile(p, in)
    \/ \E p \in Solo : uploadFileWrite(p)
    \/ \E p \in Solo : generateThumbnail(p)
    \/ \E p \in Solo : uploadFileSave(p)
    \/ \E p \in Solo : uploadFileUnlink(p)

\* The constructor has just returned on a first start: no directory exists
\* yet and ensureUploadDirectories is at its first await.
InitBoot ==
    /\ records = <<>>
    /\ disk = << >>
    /\ proc = [p \in Procs |-> IdleProc]
    /\ uuids = 0
    /\ response = NoResponse
    /\ sweepLog = NoSweeps
    /\ configMimeTypes = <<>>
    /\ dirs = {}
    /\ boot = [pc |-> "access", rest |-> directories]

\* The directories are being made while uploads come in, one at a time; the
\* process can end at any await of an upload, the loop at any of its own.
NextBoot ==
    \/ ensureAccess
    \/ ensureMkdir
    \/ constructor
    \/ \E p \in Solo : Crash(p)
    \/ \E p \in Solo, in \in ValidInputs : uploadFile(p, in)
    \/ \E p \in Solo : uploadFileWrite(p)
    \/ \E p \in Solo : generateThumbnail(p)
    \/ \E p \in Solo : uploadFileSave(p)
    \/ \E p \in Solo : uploadFileUnlink(p)

\* Uploads of documents and sweeps in one slot, deletes in either and
\* metadata reads in the other, so that a whole deleteFile or a read runs
\* between two awaits of a sweep; the outside actor removes blobs and puts
\* them back at any time, between the fs.access and the save of a sweep
\* included, and the process can end at any await of the handlers in
\* flight; started again, it goes through the loop of
\* ensureUploadDirectories, which finds every directory.
NextRestore ==
    \/ \E p \in Solo, in \in DocumentInputs : uploadFile(p, in)
    \/ \E p \in Solo : uploadFileWrite(p)
    \/ \E p \in Solo : uploadFileSave(p)
    \/ \E p \in Solo : uploadFileUnlink(p)
    \/ \E p \in Procs, id \in RecordIds : deleteFile(p, id)
    \/ \E p \in Procs : deleteFileSave(p)
    \/ \E p \in Procs \ Solo, id \in RecordIds : getFileMetadata(p, id)
    \/ \E p \in Solo : cleanupOrphanedFiles(p)
    \/ \E p \in Solo : cleanupStep(p)
    \/ \E p \in Solo : cleanupSave(p)
    \/ \E i \in 1..Len(records) : ExternalRemoveBlob(records[i].path)
    \/ \E i \in 1..Len(records) : ExternalRestoreBlob(records[i].path)
    \/ \E p \in Procs : Crash(p)
    \/ ensureAccess

\* Uploads and reads one at a time, the process crashing and starting again
\* at any await of a handler, with requests served while the loop of
\* ensureUploadDirectories runs again; the loop finds every directory, made
\* at the first start.
NextCrash ==
    \/ \E p \in Solo, in \in ValidInputs : uploadFile(p, in)
    \/ \E p \in Solo : uploadFileWrite(p)
    \/ \E p \in Solo : generateThumbnail(p)
    \/ \E p \in Solo : uploadFileSave(p)
    \/ \E p \in Solo : uploadFileUnlink(p)
    \/ \E p \in Solo, id \in RecordIds : getFile(p, id)
    \/ \E p \in Solo : getFileRead(p)
    \/ \E p \in Solo, id \in RecordIds : getThumbnail(p, id)
    \/ \E p \in Solo : getThumbnailRead(p)
    \/ \E p \in Solo : listFiles(p, NoFilter)
    \/ \E p \in Solo : Crash(p)
    \/ ensureAccess

Spec == Init /\ [][Next]_vars

SpecCat == Init /\ [][NextCat]_vars

SpecList == InitList /\ [][NextList]_vars

SpecConfig == InitConfig /\ [][NextConfig]_vars

SpecBoot == InitBoot /\ [][NextBoot]_vars

SpecRestore == Init /\ [][NextRestore]_vars

SpecCrash == Init /\ [][NextCrash]_vars

\* Every await of a handler in flight settles: the step that follows it is
\* taken.
Settling ==
    \A p \in Solo :
        /\ WF_vars(uploadFileWrite(p))
        /\ WF_vars(generateThumbnail(p))
        /\ WF_vars(uploadFileSave(p))
        /\ WF_vars(uploadFileUnlink(p))
        /\ WF_vars(cleanupStep(p))
        /\ WF_vars(cleanupSave(p))

\* Uploads, deletions and sweeps one at a time, with blobs removed from
\* outside between them.
NextLive ==
    \/ \E p \in Solo, in \in UploadInputs : uploadFile(p, in)
    \/ \E p \in Solo : uploadFileWrite(p)
    \/ \E p \in Solo : generateThumbnail(p)
    \/ \E p \in Solo : uploadFileSave(p)
    \/ \E p \in Solo : uploadFileUnlink(p)
    \/ \E p \in Solo, id \in RecordIds : deleteFile(p, id)
    \/ \E p \in Solo : deleteFileSave(p)
    \/ \E p \in Solo : cleanupOrphanedFiles(p)
    \/ \E p \in Solo : cleanupStep(p)
    \/ \E p \in Solo : cleanupSave(p)
    \/ Quiet /\ \E i \in 1..Len(records) : ExternalRemoveBlob(records[i].path)

SpecLive == Init /\ [][NextLive]_vars /\ Settling

SpecConc == Init /\ [][NextConc]_vars

SpecUploads == Init /\ [][NextUploads]_vars

----------------------------------------------------------------------------
(* Properties *)

UploadReturned(r) == r.op = "uploadFile" /\ Succeeded(r.result)

\* C1: when uploadFile returns a record, the file at the record's path is on
\* disk and holds exactly the bytes of the uploaded buffer.
C1_BlobEqualsBuffer ==
    UploadReturned(response) =>
        /\ accessible(disk, response.result.record.path)
        /\ disk[response.result.record.path] = response.input.buffer

C1_Witness ==
    /\ UploadReturned(response)
    /\ response.input.buffer = <<1, 2>>
    /\ disk[response.result.record.path] = <<1, 2>>

\* The metadata save of this upload was rejected after its blob was written.
SaveFailed(r) ==
    /\ r.op = "uploadFile"
    /\ r.result.message = "Failed to upload file: QueryFailedError"

HasRecordAt(path) == \E i \in 1..Len(records) : records[i].path = path

\* C2 as stated: after an upload whose metadata save failed, the upload has
\* failed with StorageBackendError, no record was created and no file is at
\* the path the upload wrote to.
C2_NoBlobAfterFailedSave ==
    SaveFailed(response) =>
        /\ StorageBackendError(response.result)
        /\ ~HasRecordAt(response.relativePath)
        /\ ~accessible(disk, response.relativePath)

\* C2 amended: after an upload whose metadata save failed, the upload has
\* failed with StorageBackendError and no record was created; no file is at
\* the path the upload wrote to when the compensating unlink went through,
\* and the blob is still there when the unlink itself failed.
C2_NoBlobUnlessUnlinkFailed ==
    SaveFailed(response) =>
        /\ StorageBackendError(response.result)
        /\ ~HasRecordAt(response.relativePath)
        /\ response.unlinked <=> ~accessible(disk, response.relativePath)

C2_Witness ==
    /\ SaveFailed(response)
    /\ response.unlinked
    /\ ~accessible(disk, response.relativePath)
    /\ Len(records) > 0

\* C3: with no outside actor at the tree, in every state of every
\* interleaving of uploads, deletes and sweeps, each record of the store has
\* its blob on disk at its path.
C3_RecordHasBlob ==
    \A i \in 1..Len(records) : accessible(disk, records[i].path)

\* A record is in the store while another upload is compensating for its
\* failed save and a sweep has been through.
C3_Witness ==
    /\ Len(records) > 0
    /\ \E p \in Procs : proc[p].op = "uploadFile" /\ proc[p].pc = "unlink"
                        /\ proc[p].error = "QueryFailedError"
    /\ \E p \in Procs : proc[p].op = "cleanupOrphanedFiles"

\* C4 as stated: an upload whose mimetype is not in the allow-list fails
\* with UnsupportedType and leaves the tree and the store as they were.
C4_UnsupportedTypeWhateverSize ==
    [][ ( /\ response'.op = "uploadFile"
          /\ response'.input.mimetype \notin allowedMimeTypes )
        => ( /\ UnsupportedType(response'.result)
             /\ disk' = disk /\ records' = records ) ]_vars

\* C4 amended: an upload of admissible size whose mimetype is not in the allow-list
\* fails with UnsupportedType in the step that validates it, and that step
\* leaves the tree, the store and the request slots as they were; no upload
\* with such a mimetype is ever in flight.
C4_UnsupportedTypeNoEffect ==
    [][ /\ ( /\ response'.op = "uploadFile"
             /\ response'.input.size <= maxFileSize
             /\ response'.input.mimetype \notin allowedMimeTypes )
           => ( /\ UnsupportedType(response'.result)
                /\ disk' = disk /\ records' = records /\ proc' = proc )
        /\ \A p \in Procs :
             proc'[p].op = "uploadFile"
               => proc'[p].input.mimetype \in allowedMimeTypes ]_vars

C4_Witness ==
    /\ response.op = "uploadFile"
    /\ response.input.mimetype = "application/zip"
    /\ UnsupportedType(response.result)
    /\ Len(records) > 0
    /\ DOMAIN disk # {}

\* C5: an upload whose size exceeds the maximum fails with PayloadTooLarge in
\* the step that validates it, and that step leaves the tree, the store and
\* the request slots as they were; no such upload is ever in flight; an
\* upload whose size equals the maximum does not fail with PayloadTooLarge.
C5_PayloadTooLargeNoEffect ==
    [][ /\ (response'.op = "uploadFile" /\ response'.input.size > maxFileSize)
           => ( /\ PayloadTooLarge(response'.result)
                /\ disk' = disk /\ records' = records /\ proc' = proc )
        /\ (response'.op = "uploadFile" /\ response'.input.size = maxFileSize)
           => ~PayloadTooLarge(response'.result)
        /\ \A p \in Procs :
             proc'[p].op = "uploadFile" => proc'[p].input.size <= maxFileSize
      ]_vars

\* An oversized upload is turned away while the store holds a record of
\* exactly the maximum size.
C5_Witness ==
    /\ response.op = "uploadFile"
    /\ response.input.size = maxFileSize + 1
    /\ PayloadTooLarge(response.result)
    /\ \E i \in 1..Len(records) : records[i].size = maxFileSize

\* The sweeps of the log, and in a sweep the rows whose blob is missing and
\* the rows the sweep took from active to inactive.
LoggedRuns == { sweepLog.runs[k] : k \in 1..Len(sweepLog.runs) }

Rows(run) == 1..Len(run.before)

Missing(run) == { i \in Rows(run) : run.before[i].path \notin DOMAIN run.disk }

Flipped(run) ==
    { i \in Rows(run) : run.before[i].active /\ ~run.after[i].active }

\* C6: a sweep that returns has been through every record there was when it
\* began, active or not; when it returns every record whose blob is missing
\* is inactive and every record whose blob is there has the active flag it
\* had.
C6_SweepDeactivatesMissing ==
    \A run \in LoggedRuns :
        /\ Len(run.after) = Len(run.before)
        /\ run.examined = Len(run.before)
        /\ \A i \in Rows(run) :
              IF i \in Missing(run)
                THEN ~run.after[i].active
                ELSE run.after[i].active = run.before[i].active

\* A sweep met an active record without its blob and an active record with
\* its blob.
C6_Witness ==
    \E run \in LoggedRuns :
        /\ \E i \in Missing(run) : run.before[i].active /\ ~run.after[i].active
        /\ \E i \in Rows(run) \ Missing(run) : run.after[i].active

\* C7: the count a sweep returns is the number of records it took from
\* active to inactive; a record that was inactive already is not counted.
C7_CountIsNewlyDeactivated ==
    \A run \in LoggedRuns : run.removed = Cardinality(Flipped(run))

\* C8: of two sweeps run back to back after the blob of one active record
\* went missing, the first deactivates exactly that record and returns 1,
\* and the second changes no record and returns 0.
C8_SecondSweepReturnsZero ==
    Len(sweepLog.runs) = 2 =>
        LET first == sweepLog.runs[1]
            second == sweepLog.runs[2]
        IN  ( /\ Cardinality(Missing(first)) = 1
              /\ \A i \in Missing(first) : first.before[i].active )
            => /\ Flipped(first) = Missing(first)
               /\ \A i \in Rows(first) \ Missing(first) :
                     first.after[i] = first.before[i]
               /\ first.removed = 1
               /\ second.after = second.before
               /\ second.removed = 0

\* Filters of every shape, with limits and offsets that page the result.
AnyQueries ==
    [category : {"", "PROFILE", "DOCUMENT"}, entityType : {"", "USER"},
     entityId : {"", "e1"}, uploadedBy : {"", "w1"},
     limit : {1, 50}, offset : {0, 1}]

IdsOf(data) == { data[k].id : k \in 1..Len(data) }

\* What the read handlers give for the records that are inactive now.
InactiveIsAbsent(table, reply) ==
    \A i \in 1..Len(table) :
        ~table[i].active =>
            /\ ( /\ reply.op \in {"getFile", "getFileMetadata"}
                 /\ reply.id = table[i].id ) => NotFound(reply.result)
            /\ reply.op = "listFiles" => table[i].id \notin IdsOf(reply.result.data)

\* No listing of the table, under any filter, holds an inactive record.
InactiveIsUnlisted(table) ==
    \A i \in 1..Len(table), query \in AnyQueries :
        ~table[i].active
            => table[i].id \notin IdsOf(listFilesResult(table, query).data)

\* C9: once deleteFile has made a record inactive, getFile and
\* getFileMetadata of its id fail with NotFound and listFiles does not
\* return it under any filter; no step of deleteFile changes the tree, so
\* the record's blob stays where it was with the bytes it had.  (A listing
\* depends on the store alone and the store starts empty, so the listings
\* under every filter are looked at in the steps that change the store.)
C9_DeletedIsAbsentBlobStays ==
    [][ /\ InactiveIsAbsent(records', response')
        /\ records' # records => InactiveIsUnlisted(records')
        /\ ( \/ response'.op = "deleteFile"
             \/ \E p \in Procs : proc'[p].op = "deleteFile" ) => disk' = disk
      ]_vars

\* getFile is refused for a record that deleteFile made inactive and whose
\* blob is still on disk.
C9_Witness ==
    /\ response.op = "getFile"
    /\ NotFound(response.result)
    /\ \E i \in 1..Len(records) :
          /\ records[i].id = response.id
          /\ ~records[i].active
          /\ records[i].path \in DOMAIN disk

\* The statement without the rejected save: deleteFile either fails with
\* NotFound and changes nothing, or succeeds and leaves the record inactive.
C10_DeleteAlwaysPersists ==
    [][ response'.op = "deleteFile" =>
          LET i == RowOf(records, response'.id)
          IN  IF i = 0 \/ ~records[i].active
                THEN /\ NotFound(response'.result)
                     /\ records' = records /\ disk' = disk
                ELSE /\ Succeeded(response'.result)
                     /\ records' = [records EXCEPT ![i].active = FALSE]
                     /\ disk' = disk
      ]_vars

\* C10: deleteFile(id) fails with NotFound and changes nothing when no
\* record has that id or the record is inactive; otherwise it sets the
\* record's active flag to false and saves the record: when the save goes
\* through, the call succeeds and the store differs from before in that
\* flag alone; when the store rejects the save, the call fails with the
\* store's error and the record stays active.  The tree is never changed.
C10_DeleteFile ==
    [][ response'.op = "deleteFile" =>
          LET i == RowOf(records, response'.id)
          IN  /\ disk' = disk
              /\ IF i = 0 \/ ~records[i].active
                   THEN NotFound(response'.result) /\ records' = records
                   ELSE \/ /\ Succeeded(response'.result)
                           /\ records' = [records EXCEPT ![i].active = FALSE]
                        \/ /\ response'.result.exception = "QueryFailedError"
                           /\ records' = records
      ]_vars

\* deleteFile of an active record has failed in its save, and the record is
\* active still.
C10_Witness ==
    /\ response.op = "deleteFile"
    /\ response.result.exception = "QueryFailedError"
    /\ \E i \in 1..Len(records) :
          records[i].id = response.id /\ records[i].active

\* C11: getFile(id) fails with NotFound when no record has the id, when the
\* record is inactive, and when the record is active and no blob can be read
\* at its path; otherwise it returns the record and the bytes of its blob.
\* It changes neither the store nor the tree.
C11_GetFile ==
    [][ response'.op = "getFile" =>
          LET i == RowOf(records, response'.id)
          IN  /\ records' = records /\ disk' = disk
              /\ IF i = 0 \/ ~records[i].active
                   THEN NotFound(response'.result)
                   ELSE IF records[i].path \notin DOMAIN disk
                     THEN NotFound(response'.result)
                     ELSE /\ Succeeded(response'.result)
                          /\ response'.result.record = records[i]
                          /\ response'.result.buffer = disk[records[i].path]
      ]_vars

\* getFile is refused for an active record whose blob is gone from the tree.
C11_Witness ==
    /\ response.op = "getFile"
    /\ NotFound(response.result)
    /\ \E i \in 1..Len(records) :
          /\ records[i].id = response.id
          /\ records[i].active
          /\ records[i].path \notin DOMAIN disk

\* C12: in every state no two records of the store, active or inactive, have
\* the same storedFilename, whatever the uploads and however many of them
\* carry the same original file name.
C12_StoredFilenameUnique ==
    \A i, j \in 1..Len(records) :
        i # j => records[i].storedFilename # records[j].storedFilename

\* Two uploads of a file of the same name are both in the store, one of them
\* soft-deleted.
C12_Witness ==
    \E i, j \in 1..Len(records) :
        /\ i # j
        /\ records[i].originalFilename = records[j].originalFilename
        /\ ~records[i].active /\ records[j].active
        /\ records[i].storedFilename # records[j].storedFilename

\* The subdirectory the specification gives each category.
sub(category) ==
    CASE category = "PROFILE"    -> "profiles"
      [] category = "DOCUMENT"   -> "documents"
      [] category = "FORM_FIELD" -> "forms"
      [] category \in {"ATTACHMENT", "OTHER", "UNRECOGNIZED"} -> "temp"

\* C13: the path of every record is sub(category) joined with its
\* storedFilename, and the storedFilename is a generated token followed by
\* the extension of the original name: nothing else of the caller's input
\* is in the path.
C13_PathFromCategory ==
    \A i \in 1..Len(records) :
        /\ records[i].path =
              sub(records[i].category) \o "/" \o records[i].storedFilename
        /\ \E n \in 1..uuids :
              records[i].storedFilename =
                  uuidv4(n) \o extname(records[i].originalFilename)

\* A file of a category outside the enum, uploaded under a name with
\* directory parts, and a form field file are both in the store.
C13_Witness ==
    \E i, j \in 1..Len(records) :
        /\ records[i].category = "UNRECOGNIZED"
        /\ records[i].originalFilename = <<".", ".", "/", "x", ".", "s", "h">>
        /\ records[i].path = "temp/u1.sh"
        /\ records[j].category = "FORM_FIELD"
        /\ records[j].path = "forms/u3.txt"

\* The uploads under way that have their stored file name.
Uploading(slots) == { p \in Procs : slots[p].op = "uploadFile" }

thumbnailName(storedFilename) == "thumbnails/thumb_" \o storedFilename

\* C14: in every interleaving of two uploads, the two have different
\* storedFilename values, different paths and different thumbnail paths
\* while they run, differ in them from every record of the store, and end
\* as records that differ in them; no step writes over a file that is on
\* disk already.
C14_ConcurrentUploadsDisjoint ==
    [][ /\ \A p, q \in Uploading(proc') :
              p # q =>
                /\ proc'[p].storedFilename # proc'[q].storedFilename
                /\ proc'[p].relativePath # proc'[q].relativePath
                /\ thumbnailName(proc'[p].storedFilename)
                      # thumbnailName(proc'[q].storedFilename)
        /\ \A p \in Uploading(proc'), i \in 1..Len(records') :
              /\ proc'[p].storedFilename # records'[i].storedFilename
              /\ proc'[p].relativePath # records'[i].path
              /\ thumbnailName(proc'[p].storedFilename) # records'[i].thumbnailPath
        /\ \A i, j \in 1..Len(records') :
              i # j =>
                /\ records'[i].storedFilename # records'[j].storedFilename
                /\ records'[i].path # records'[j].path
                /\ records'[i].thumbnailPath # ""
                      => records'[i].thumbnailPath # records'[j].thumbnailPath
        /\ \A path \in DOMAIN disk \cap DOMAIN disk' : disk'[path] = disk[path]
      ]_vars

\* Two uploads of the same image are under way together, each with its blob
\* and its thumbnail written.
C14_Witness ==
    /\ proc[1].op = "uploadFile" /\ proc[1].pc = "save"
    /\ proc[2].op = "uploadFile" /\ proc[2].pc = "save"
    /\ proc[1].input = proc[2].input
    /\ proc[1].thumbnailPath # "" /\ proc[2].thumbnailPath # ""
    /\ proc[1].relativePath # proc[2].relativePath
    /\ {proc[1].relativePath, proc[2].relativePath,
        proc[1].thumbnailPath, proc[2].thumbnailPath} \subseteq DOMAIN disk

\* C15 as stated: every upload of mimetype image/png that returns a record
\* returns one whose thumbnailPath is set.
C15_PngHasThumbnail ==
    ( UploadReturned(response) /\ response.input.mimetype = "image/png" )
        => response.result.record.thumbnailPath # ""

\* The derivation for this stored file name and buffer succeeded: the whole
\* derivative is at the thumbnail's path.  (A derivation that failed left
\* nothing there or a beginning of it.)
Derived(tree, storedFilename, buffer) ==
    /\ accessible(tree, thumbnailName(storedFilename))
    /\ tree[thumbnailName(storedFilename)] = thumbnailOf(buffer)

\* C15 amended: an upload of mimetype image/png that returns a record returns
\* one whose thumbnailPath is the thumbnail's path when the derivation wrote
\* the thumbnail, and one whose thumbnailPath is unset when the derivation
\* failed, whether it left a file behind or not.
C15_PngHasThumbnailWhenDerived ==
    ( UploadReturned(response) /\ response.input.mimetype = "image/png" )
        => LET record == response.result.record
               thumbnail == thumbnailName(record.storedFilename)
           IN  IF Derived(disk, record.storedFilename, response.input.buffer)
                 THEN record.thumbnailPath = thumbnail
                 ELSE record.thumbnailPath = ""

\* An image/png upload has returned a record that names its thumbnail, which
\* is on disk.
C15_Witness ==
    /\ UploadReturned(response)
    /\ response.input.mimetype = "image/png"
    /\ response.result.record.thumbnailPath # ""
    /\ accessible(disk, response.result.record.thumbnailPath)
    /\ Derived(disk, response.result.record.storedFilename,
               response.input.buffer)

\* The upload in slot p is an image upload at this point of its handler.
ImageUploadAt(p, pc) ==
    /\ proc[p].op = "uploadFile" /\ proc[p].pc = pc
    /\ startsWithImage(proc[p].input.mimetype)

\* C16: when the derivation of the thumbnail fails for an image upload,
\* leaving nothing or a beginning of the derivative, no error is returned:
\* the upload goes on to the save with thumbnailPath unset and its blob on
\* disk, and unless the save itself is rejected it returns a record with
\* thumbnailPath unset whose blob is on disk.
C16_ThumbnailFailureNotFatal ==
    [][ \A p \in Procs :
          /\ ( ImageUploadAt(p, "generateThumbnail")
               /\ proc'[p] # proc[p]
               /\ ~Derived(disk', proc[p].storedFilename, proc[p].input.buffer) )
             => /\ proc'[p].pc = "save"
                /\ proc'[p].thumbnailPath = ""
                /\ response' = NoResponse
                /\ records' = records
                /\ disk[proc[p].relativePath] = proc[p].input.buffer
          /\ ( ImageUploadAt(p, "save")
               /\ proc[p].thumbnailPath = "" /\ proc'[p] # proc[p] )
             => \/ /\ UploadReturned(response')
                   /\ response'.result.record.thumbnailPath = ""
                   /\ response'.result.record.path = proc[p].relativePath
                   /\ records' = Append(records, response'.result.record)
                   /\ disk' = disk
                   /\ disk[proc[p].relativePath] = proc[p].input.buffer
                \/ proc'[p].error = "QueryFailedError"
      ]_vars

\* An image upload whose thumbnail was not derived has returned a record,
\* and its blob is on disk.
C16_Witness ==
    /\ UploadReturned(response)
    /\ startsWithImage(response.input.mimetype)
    /\ response.result.record.thumbnailPath = ""
    /\ ~accessible(disk, thumbnailName(response.result.record.storedFilename))
    /\ accessible(disk, response.result.record.path)

\* The paths under thumbnails/ that a stored file name can give.
underThumbnails(path, drawn) ==
    \E n \in 1..drawn, in \in UploadInputs :
        path = thumbnailName(uuidv4(n) \o extname(in.originalname))

\* C17: an upload whose mimetype does not begin with "image/" is never at the
\* derivation of a thumbnail, none of its steps puts a file under
\* thumbnails/, and the record it returns has thumbnailPath unset, with no
\* thumbnail on disk for its stored name.
C17_NoThumbnailForNonImage ==
    [][ /\ \A p \in Procs :
              ( proc'[p].op = "uploadFile"
                /\ proc'[p].input.mimetype \notin ImageMimeTypes )
              => /\ proc'[p].pc # "generateThumbnail"
                 /\ proc'[p].thumbnailPath = ""
        /\ \A p \in Procs :
              ( proc[p].op = "uploadFile"
                /\ proc[p].input.mimetype \notin ImageMimeTypes
                /\ proc'[p] # proc[p] )
              => \A path \in DOMAIN disk' \ DOMAIN disk :
                    ~underThumbnails(path, uuids')
        /\ ( UploadReturned(response')
             /\ response'.input.mimetype \notin ImageMimeTypes )
           => /\ response'.result.record.thumbnailPath = ""
              /\ ~accessible(disk',
                    thumbnailName(response'.result.record.storedFilename))
      ]_vars

\* An application/pdf upload has returned a record without thumbnailPath
\* while the thumbnail of an image uploaded before it is on disk.
C17_Witness ==
    /\ UploadReturned(response)
    /\ response.input.mimetype = "application/pdf"
    /\ response.result.record.thumbnailPath = ""
    /\ \E i \in 1..Len(records) :
          /\ records[i].thumbnailPath # ""
          /\ accessible(disk, records[i].thumbnailPath)

\* C18: getThumbnail(id) fails with NotFound when no record has the id, when
\* the record is inactive, when it has no thumbnailPath and when no file can
\* be read at its thumbnailPath; otherwise it returns the record and the
\* bytes of the thumbnail, whether or not the blob of the record is on disk.
\* It changes neither the store nor the tree.
C18_GetThumbnail ==
    [][ response'.op = "getThumbnail" =>
          LET i == RowOf(records, response'.id)
          IN  /\ records' = records /\ disk' = disk
              /\ IF i = 0 \/ ~records[i].active
                   THEN NotFound(response'.result)
                   ELSE IF \/ records[i].thumbnailPath = ""
                           \/ records[i].thumbnailPath \notin DOMAIN disk
                     THEN NotFound(response'.result)
                     ELSE /\ Succeeded(response'.result)
                          /\ response'.result.record = records[i]
                          /\ response'.result.buffer
                                = disk[records[i].thumbnailPath]
      ]_vars

\* getThumbnail has returned the thumbnail of a record whose blob is gone
\* from the tree.
C18_Witness ==
    /\ response.op = "getThumbnail"
    /\ Succeeded(response.result)
    /\ response.result.buffer = thumbnailOf(<<1, 2>>)
    /\ response.result.record.path \notin DOMAIN disk

\* C19: getFileMetadata(id) returns the record whenever an active record has
\* the id, whether its blob is on disk or not, and fails with NotFound
\* exactly when no active record has the id; the answer depends on the store
\* alone, and neither the store nor the tree is changed.
C19_GetFileMetadata ==
    [][ response'.op = "getFileMetadata" =>
          LET i == RowOf(records, response'.id)
          IN  /\ records' = records /\ disk' = disk /\ proc' = proc
              /\ IF i # 0 /\ records[i].active
                   THEN /\ Succeeded(response'.result)
                        /\ response'.result.record = records[i]
                   ELSE NotFound(response'.result)
      ]_vars

\* getFileMetadata has returned an active record whose blob is gone from the
\* tree.
C19_Witness ==
    /\ response.op = "getFileMetadata"
    /\ Succeeded(response.result)
    /\ response.result.record.active
    /\ response.result.record.path \notin DOMAIN disk

\* The rows of the table that are active and agree with every filter the
\* query supplies.
Eligible(table, query) ==
    { i \in 1..Len(table) :
        /\ table[i].active = TRUE
        /\ \A f \in {"category", "entityType", "entityId", "uploadedBy"} :
              query[f] = "" \/ table[i][f] = query[f] }

\* What a listing of the table may hold under the query.
ListsEligible(table, query, data, total) ==
    /\ \A k \in 1..Len(data) :
          \E i \in Eligible(table, query) : data[k] = table[i]
    /\ total = Cardinality(Eligible(table, query))

\* C20: listFiles returns only active records that agree with every filter
\* supplied, a filter left out agreeing with every record, and total is the
\* number of all such records whatever limit and offset are; this holds of
\* the listings the handler returns and of the listing of every store
\* reached under filters, limits and offsets of every shape.  (A listing
\* depends on the store alone and the store starts empty, so the listings
\* of every shape are looked at in the steps that change the store.)
C20_ListFiles ==
    [][ /\ response'.op = "listFiles" =>
              /\ ListsEligible(records, response'.query,
                               response'.result.data, response'.result.total)
              /\ records' = records /\ disk' = disk
        /\ records' # records =>
              \A query \in AnyQueries :
                 LET found == listFilesResult(records', query)
                 IN  ListsEligible(records', query, found.data, found.total)
      ]_vars

\* A listing of the second page of one has returned one record of the two
\* that match.
C20_Witness ==
    /\ response.op = "listFiles"
    /\ response.query.limit = 1 /\ response.query.offset = 1
    /\ Len(response.result.data) = 1
    /\ response.result.total = 2

\* The page of the table a query asks for: of the rows eligible under the
\* query, latest upload first, the ones after the first offset, limit of
\* them at most.
Later(rows, i) == Cardinality({ j \in rows : j > i })

IsPage(table, query, data) ==
    LET rows == Eligible(table, query)
        left == Cardinality(rows) - query.offset
    IN  /\ Len(data) = IF left <= 0 THEN 0
                       ELSE IF left < query.limit THEN left ELSE query.limit
        /\ \A k \in 1..Len(data) :
              \E i \in rows : /\ Later(rows, i) = query.offset + k - 1
                              /\ data[k] = table[i]

\* C21: listFiles returns the matching active records latest upload first,
\* without the first offset of them and limit of them at most, and total
\* counts all of them; so category = PROFILE, limit = 2, offset = 0 over five
\* active and one inactive PROFILE record gives the two latest active
\* records and total = 5.
C21_ListFilesPage ==
    response.op = "listFiles" =>
        /\ IsPage(records, response.query, response.result.data)
        /\ response.result.total
              = Cardinality(Eligible(records, response.query))

\* Five active PROFILE records and a later inactive one are listed with
\* category = PROFILE, limit = 2, offset = 0: the fifth and the fourth upload
\* come back, with total = 5.
C21_Witness ==
    /\ response.op = "listFiles"
    /\ response.query = [NoFilter EXCEPT !.category = "PROFILE", !.limit = 2]
    /\ Len(records) = 6
    /\ \A i \in 1..6 : records[i].category = "PROFILE"
                       /\ records[i].active = (i # 6)
    /\ response.result.data = <<records[5], records[4]>>
    /\ response.result.total = 5

\* The files of a tree that no record of a table names.
Orphans(tree, table) ==
    { path \in DOMAIN tree :
        \A i \in 1..Len(table) :
            table[i].path # path /\ table[i].thumbnailPath # path }

\* C22: no step of cleanupOrphanedFiles changes the tree; the sweep looks at
\* the blob paths of the records only: it leaves a record whose blob is
\* there as it was, whatever has become of its thumbnail, and the count it
\* returns is the number of records whose blob is missing, whatever files
\* without a record are on disk.
C22_SweepLeavesTree ==
    [][ /\ ( \/ response'.op = "cleanupOrphanedFiles"
             \/ \E p \in Procs : proc[p].op = "cleanupOrphanedFiles"
             \/ \E p \in Procs : proc'[p].op = "cleanupOrphanedFiles" )
           => disk' = disk
        /\ \A k \in 1..Len(sweepLog'.runs) :
              LET run == sweepLog'.runs[k]
              IN  /\ run.removed = Cardinality(Missing(run))
                  /\ \A i \in Rows(run) \ Missing(run) :
                        run.after[i] = run.before[i]
                  /\ Orphans(run.disk, run.after) \subseteq DOMAIN disk'
      ]_vars

\* A sweep has returned over a tree that holds a file without a record and
\* lacks the thumbnail of a record, which is active still.
C22_Witness ==
    \E run \in LoggedRuns :
        /\ Orphans(run.disk, run.after) # {}
        /\ Orphans(disk, records) = Orphans(run.disk, run.after)
        /\ \E i \in Rows(run) :
              /\ run.after[i].thumbnailPath # ""
              /\ run.after[i].thumbnailPath \notin DOMAIN run.disk
              /\ run.after[i].active

\* C23: no step of any handler takes a record out of the store: every record
\* is in the store after the step, in its place and under its id, so the
\* set of ids only grows and inactive records stay.
C23_RecordsStay ==
    [][ /\ Len(records') >= Len(records)
        /\ \A i \in 1..Len(records) : records'[i].id = records[i].id
      ]_vars

\* After deletes and sweeps the store holds an inactive record whose blob is
\* on disk and an inactive record whose blob is gone, and is listed.
C23_Witness ==
    \E i, j \in 1..Len(records) :
        /\ ~records[i].active /\ records[i].path \in DOMAIN disk
        /\ ~records[j].active /\ records[j].path \notin DOMAIN disk
        /\ response.op = "listFiles"

\* Mimetypes to try the list in force with.
ProbeMimeTypes ==
    DEFAULT_ALLOWED_MIME_TYPES \cup { in.mimetype : in \in UploadInputs }
        \cup {"", "text/html"}

\* C24: under every configuration the list in force is not empty, and it is
\* the default list when nothing is configured; some mimetype is outside it,
\* the type check turns every mimetype outside it away, an upload of admissible
\* size with such a mimetype fails with UnsupportedType and changes nothing,
\* and no upload with such a mimetype returns a record.
C24_AllowListNeverEmpty ==
    [][ /\ allowedMimeTypes # {}
        /\ configMimeTypes = <<>> => allowedMimeTypes = DEFAULT_ALLOWED_MIME_TYPES
        /\ ProbeMimeTypes \ allowedMimeTypes # {}
        /\ \A mimetype \in ProbeMimeTypes \ allowedMimeTypes :
              mimetypeNotAllowed([mimetype |-> mimetype])
        /\ ( /\ response'.op = "uploadFile"
             /\ response'.input.size <= maxFileSize
             /\ response'.input.mimetype \notin allowedMimeTypes )
           => /\ UnsupportedType(response'.result)
              /\ disk' = disk /\ records' = records
        /\ UploadReturned(response')
              => response'.input.mimetype \in allowedMimeTypes
      ]_vars

\* With nothing configured, an upload of a type outside the default list has
\* been turned away.
C24_Witness ==
    /\ configMimeTypes = <<>>
    /\ response.op = "uploadFile"
    /\ response.input.mimetype = "application/zip"
    /\ response.input.mimetype \notin DEFAULT_ALLOWED_MIME_TYPES
    /\ UnsupportedType(response.result)

\* C25: whenever an upload is at its blob write, every storage subdirectory
\* exists, so that no upload fails for want of a directory.
C25_DirectoriesBeforeWrite ==
    /\ \A p \in Procs :
          ( proc[p].op = "uploadFile" /\ proc[p].pc = "writeFile" )
          => \A k \in 1..Len(directories) : directories[k] \in dirs
    /\ response.op = "uploadFile"
          => response.result.message # "Failed to upload file: ENOENT"

\* C26: when deleteFile calls for one record overlap, every save of a
\* deleteFile that goes through leaves that record inactive and every other
\* record as it was, a save the store rejects leaves every record as it was,
\* and no step of the other call makes the record active again: whatever the
\* order of the lookups and saves, the record is inactive from the first
\* save on.
C26_OverlappingDeletes ==
    [][ /\ ( response'.op = "deleteFile" /\ Succeeded(response'.result) )
           => LET i == RowOf(records, response'.id)
              IN  /\ i # 0
                  /\ records' = [records EXCEPT ![i].active = FALSE]
        /\ ( response'.op = "deleteFile" /\ ~Succeeded(response'.result) )
           => records' = records
        /\ \A i \in 1..Len(records) :
              ~records[i].active => ~records'[i].active
      ]_vars

\* One of two overlapping deleteFile calls has saved and the other, which
\* looked the record up while it was active, is still to save.
C26_Witness ==
    /\ response.op = "deleteFile" /\ Succeeded(response.result)
    /\ \E p \in Procs :
          /\ proc[p].op = "deleteFile" /\ proc[p].pc = "save"
          /\ proc[p].id = response.id
    /\ ~records[RowOf(records, response.id)].active

\* C27 as stated: every deleteFile that reports success found the record
\* active when it saved, so that success is reported once per id at most.
C27_SuccessAtMostOnce ==
    [][ ( response'.op = "deleteFile" /\ Succeeded(response'.result) )
        => LET i == RowOf(records, response'.id)
           IN  i # 0 /\ records[i].active
      ]_vars

\* C27: a deleteFile call goes on to its save only when its lookup found the
\* record active, fails with NotFound exactly when the lookup found no active
\* record of that id, and reports success only as the save of a call that
\* passed its lookup; calls that looked the record up before either saved
\* each report success.
C27_SuccessOnlyAfterActiveLookup ==
    [][ /\ \A p \in Procs :
              ( Free(p) /\ proc'[p].op = "deleteFile" )
              => LET i == RowOf(records, proc'[p].id)
                 IN  /\ i # 0 /\ records[i].active
                     /\ proc'[p].pc = "save"
                     /\ response' = NoResponse
        /\ ( response'.op = "deleteFile" /\ NotFound(response'.result) )
              => /\ \A i \in 1..Len(records) :
                        records[i].id = response'.id => ~records[i].active
                 /\ UNCHANGED <<records, disk, proc>>
        /\ ( response'.op = "deleteFile" /\ Succeeded(response'.result) )
              => \E p \in Procs :
                    /\ proc[p].op = "deleteFile" /\ proc[p].pc = "save"
                    /\ proc[p].id = response'.id
                    /\ proc'[p] = IdleProc
      ]_vars

\* Two deleteFile calls for one record have both passed their lookup and
\* neither has saved: the record is still active.
C27_Witness ==
    \E i \in 1..Len(records) :
        /\ records[i].active
        /\ \A p \in Procs :
              /\ proc[p].op = "deleteFile" /\ proc[p].pc = "save"
              /\ proc[p].id = records[i].id

\* C28: whenever no upload is in progress, every file under thumbnails/ is
\* the thumbnailPath of some record.
C28_NoStrayThumbnail ==
    ( \A p \in Procs : proc[p].op # "uploadFile" )
    => \A path \in DOMAIN disk :
          underThumbnails(path, uuids)
          => \E i \in 1..Len(records) : records[i].thumbnailPath = path

\* C29: a sweep goes through every record it loaded and ends by returning
\* its count: no step of a sweep ends the handler with an error or with
\* records still to examine.
C29_SweepNeverAborts ==
    [][ \A p \in Procs :
          ( proc[p].op = "cleanupOrphanedFiles" /\ proc'[p] = IdleProc )
          => /\ Succeeded(response'.result)
             /\ Tail(proc[p].allMetadata) = <<>>
      ]_vars

\* C30: the size is checked first and the mimetype second, both before the
\* stored file name is drawn and before any write: an upload that is too
\* large and of a mimetype outside the list fails with PayloadTooLarge, not
\* with UnsupportedType; a step that ends an upload with either of the two
\* draws no identifier and leaves the tree, the store and the request slots
\* as they were; an upload that has its stored file name has passed both.
C30_SizeBeforeType ==
    [][ /\ ( /\ response'.op = "uploadFile"
             /\ response'.input.size > maxFileSize
             /\ response'.input.mimetype \notin allowedMimeTypes )
           => /\ PayloadTooLarge(response'.result)
              /\ ~UnsupportedType(response'.result)
        /\ ( /\ response'.op = "uploadFile"
             /\ \/ PayloadTooLarge(response'.result)
                \/ UnsupportedType(response'.result) )
           => /\ \E p \in Procs : Free(p)
              /\ uuids' = uuids /\ disk' = disk
              /\ records' = records /\ proc' = proc
        /\ \A p \in Procs :
             proc'[p].storedFilename # ""
               => /\ proc'[p].input.size <= maxFileSize
                  /\ proc'[p].input.mimetype \in allowedMimeTypes
      ]_vars

\* With files stored, an upload that is too large and of a mimetype outside
\* the list has been turned away for its size.
C30_Witness ==
    /\ response.op = "uploadFile"
    /\ response.input.size > maxFileSize
    /\ response.input.mimetype \notin allowedMimeTypes
    /\ PayloadTooLarge(response.result)
    /\ Len(records) > 0
    /\ DOMAIN disk # {}

\* The errors a rejected fs.writeFile of the blob leaves in the catch block.
WriteErrors == {"ENOSPC", "ENOENT"}

\* The upload that just ended had failed at its blob write.
WriteFailed(r) ==
    /\ r.op = "uploadFile"
    /\ \E e \in WriteErrors : r.result.message = "Failed to upload file: " \o e

\* The statement without the file a rejected write can leave: after an
\* upload that failed at its blob write no record has its path and no file
\* is at its path.
C31_NothingAfterWriteFailure ==
    [][ WriteFailed(response')
          => /\ ~\E i \in 1..Len(records') :
                    records'[i].path = response'.relativePath
             /\ ~accessible(disk', response'.relativePath)
      ]_vars

\* C31: a step at the blob write either puts the buffer at the upload's path
\* or, the write rejected, goes to the catch block with the store and the
\* identifiers drawn as they were and the tree as it was but for a beginning
\* of the buffer the write may have left at the upload's path, so that
\* neither the derivation of a thumbnail nor the metadata insert is
\* attempted; the catch block attempts the unlink of that path and the
\* upload fails with StorageBackendError.  After it no record has its path
\* and no thumbnail of it is on disk; a file is at its path only when the
\* write left one and the unlink failed, and it holds a beginning of the
\* buffer.
C31_WriteFailure ==
    [][ /\ \A p \in Procs :
              ( proc[p].op = "uploadFile" /\ proc[p].pc = "writeFile"
                /\ proc'[p] # proc[p] )
              => \/ /\ accessible(disk', proc[p].relativePath)
                    /\ disk'[proc[p].relativePath] = proc[p].input.buffer
                    /\ proc'[p].pc \in {"generateThumbnail", "save"}
                 \/ /\ proc'[p].pc = "unlink"
                    /\ proc'[p].error \in WriteErrors
                    /\ proc'[p].thumbnailPath = ""
                    /\ records' = records /\ uuids' = uuids
                    /\ \/ disk' = disk
                       \/ /\ proc'[p].error = "ENOSPC"
                          /\ \E part \in Truncated(proc[p].input.buffer) :
                                disk' = writeFile(disk, proc[p].relativePath,
                                                  part)
        /\ \A p \in Procs :
              ( proc[p].pc = "unlink" /\ proc[p].error \in WriteErrors
                /\ proc'[p] # proc[p] )
              => /\ proc'[p] = IdleProc
                 /\ WriteFailed(response')
                 /\ StorageBackendError(response'.result)
                 /\ ~accessible(disk', thumbnailName(proc[p].storedFilename))
                 /\ records' = records /\ uuids' = uuids
                 /\ disk' = IF response'.unlinked
                              THEN unlink(disk, proc[p].relativePath)
                              ELSE disk
        /\ WriteFailed(response')
              => /\ ~\E i \in 1..Len(records') :
                        records'[i].path = response'.relativePath
                 /\ accessible(disk', response'.relativePath)
                      => /\ ~response'.unlinked
                         /\ disk'[response'.relativePath]
                              \in Truncated(response'.input.buffer)
      ]_vars

\* With files stored, an upload whose blob write was rejected has failed;
\* the write had left a beginning of the buffer at its path and the unlink
\* of the catch block had failed, so the file is there still.
C31_Witness ==
    /\ WriteFailed(response)
    /\ StorageBackendError(response.result)
    /\ accessible(disk, response.relativePath)
    /\ disk[response.relativePath] \in Truncated(response.input.buffer)
    /\ ~response.unlinked
    /\ Len(records) > 0

\* C32: when the metadata save of an upload was rejected and the unlink of
\* its blob was rejected too, the upload fails with StorageBackendError
\* carrying the error of the save, the store is as it was, and of the files
\* the upload wrote only its blob is on disk.
C32_OnlyBlobLeftBehind ==
    [][ \A p \in Procs :
          ( /\ proc[p].op = "uploadFile" /\ proc[p].pc = "unlink"
            /\ proc[p].error = "QueryFailedError"
            /\ proc'[p] = IdleProc
            /\ ~response'.unlinked )
          => /\ StorageBackendError(response'.result)
             /\ SaveFailed(response')
             /\ records' = records
             /\ ~HasRecordAt(proc[p].relativePath)
             /\ accessible(disk', proc[p].relativePath)
             /\ ~accessible(disk', thumbnailName(proc[p].storedFilename))
      ]_vars

\* C33: every step of every handler leaves each record of the store as it
\* was in every field but active: id, storedFilename, path, thumbnailPath,
\* category, mimetype, size and the rest are what the upload stored.
C33_OnlyActiveChanges ==
    [][ \A i \in 1..Len(records) :
          /\ i <= Len(records')
          /\ records'[i] = [records[i] EXCEPT !.active = records'[i].active]
      ]_vars

\* A sweep has just deactivated the record of an image whose blob went
\* missing, next to a record that deleteFile deactivated and whose blob is
\* on disk; both still have their thumbnail paths.
C33_Witness ==
    /\ response.op = "cleanupOrphanedFiles"
    /\ response.result.removed = 1
    /\ \E i, j \in 1..Len(records) :
          /\ ~records[i].active /\ ~accessible(disk, records[i].path)
          /\ records[i].thumbnailPath # ""
          /\ ~records[j].active /\ accessible(disk, records[j].path)
          /\ records[j].thumbnailPath # ""

\* C34: an upload holds a thumbnail path exactly from the step in which the
\* derivation for an image wrote the whole thumbnail (a derivation that
\* failed gives none, whatever it left on disk), and the path is "thumbnails"
\* joined with "thumb_" and the stored file name; the record the upload
\* stores has that path, or none when no derivation succeeded; and no later
\* step gives a stored record a thumbnail path, takes it away or changes it.
C34_ThumbnailPathFromUpload ==
    [][ /\ \A p \in Procs :
              LET wrote ==
                    /\ proc[p].op = "uploadFile"
                    /\ proc[p].pc = "generateThumbnail"
                    /\ proc[p].input.mimetype \in ImageMimeTypes
                    /\ disk' # disk
                    /\ Derived(disk', proc[p].storedFilename,
                               proc[p].input.buffer)
              IN  /\ ( proc[p].thumbnailPath = "" /\ proc'[p].thumbnailPath # "" )
                        <=> wrote
                  /\ proc'[p].thumbnailPath # ""
                        => /\ proc'[p].thumbnailPath
                                = thumbnailName(proc'[p].storedFilename)
                           /\ proc'[p].op = "uploadFile"
                  /\ ( proc[p].thumbnailPath # "" /\ proc'[p].op = "uploadFile" )
                        => proc'[p].thumbnailPath = proc[p].thumbnailPath
                  /\ ( proc[p].op = "uploadFile" /\ proc[p].pc = "save"
                       /\ Len(records') > Len(records) )
                        => records'[Len(records')].thumbnailPath
                             = proc[p].thumbnailPath
        /\ \A i \in 1..Len(records) :
              records'[i].thumbnailPath = records[i].thumbnailPath
        /\ \A i \in 1..Len(records') :
              records'[i].thumbnailPath # ""
                => /\ records'[i].thumbnailPath
                        = thumbnailName(records'[i].storedFilename)
                   /\ records'[i].mimetype \in ImageMimeTypes
      ]_vars

\* The store holds an image whose derivation succeeded, with its thumbnail
\* path, and an image whose derivation failed, with none, both deactivated
\* since.
C34_Witness ==
    \E i, j \in 1..Len(records) :
        /\ records[i].mimetype \in ImageMimeTypes
        /\ records[i].thumbnailPath = thumbnailName(records[i].storedFilename)
        /\ ~records[i].active
        /\ records[j].mimetype \in ImageMimeTypes
        /\ records[j].thumbnailPath = ""
        /\ ~records[j].active

\* C35: no step of an upload, a delete or a sweep, and no removal or return
\* of a blob, makes an inactive record active: a record that deleteFile
\* deactivated stays inactive through sweeps that find its blob, and so does
\* a record a sweep deactivated whose blob is back on disk.
C35_InactiveStaysInactive ==
    [][ \A i \in 1..Len(records) :
          ~records[i].active
            => /\ i <= Len(records')
               /\ records'[i].id = records[i].id
               /\ ~records'[i].active
      ]_vars

\* A sweep has just gone through a store in which a record it had
\* deactivated earlier has its blob back on disk, and a record deactivated
\* by deleteFile has its blob as uploaded; it counted nothing and both
\* records are inactive.
C35_Witness ==
    /\ response.op = "cleanupOrphanedFiles"
    /\ Succeeded(response.result)
    /\ response.result.removed = 0
    /\ \E i, j \in 1..Len(records) :
          /\ ~records[i].active
          /\ accessible(disk, records[i].path)
          /\ disk[records[i].path] = RestoredBytes
          /\ ~records[j].active
          /\ accessible(disk, records[j].path)
          /\ disk[records[j].path] # RestoredBytes

\* The tree after the step is the tree before it with one more file.
AddsFile(path) ==
    /\ ~accessible(disk, path)
    /\ DOMAIN disk' = DOMAIN disk \cup {path}
    /\ \A q \in DOMAIN disk : disk'[q] = disk[q]

\* C36: the steps of an upload that returns a record add one blob, which
\* holds the buffer, at most one thumbnail, and one record, which is active
\* and has the caller's originalFilename, mimetype, size and category as
\* given; each step leaves every file and every record that was there
\* before it as it was.  (A blob write that is rejected, which ends the
\* upload in failure, adds nothing or a beginning of the buffer.)
C36_UploadAddsOneOfEach ==
    [][ \A p \in Procs :
          ( proc[p].op = "uploadFile" /\ proc'[p] # proc[p] )
          => /\ proc[p].pc = "writeFile"
                  => /\ records' = records
                     /\ \/ /\ proc'[p].pc = "unlink"
                           /\ \/ disk' = disk
                              \/ /\ AddsFile(proc[p].relativePath)
                                 /\ disk'[proc[p].relativePath]
                                      \in Truncated(proc[p].input.buffer)
                        \/ /\ proc'[p].pc \in {"generateThumbnail", "save"}
                           /\ AddsFile(proc[p].relativePath)
                           /\ disk'[proc[p].relativePath] = proc[p].input.buffer
             /\ proc[p].pc = "generateThumbnail"
                  => /\ records' = records
                     /\ \/ disk' = disk
                        \/ AddsFile(thumbnailName(proc[p].storedFilename))
             /\ proc[p].pc = "save"
                  => /\ disk' = disk
                     /\ accessible(disk, proc[p].relativePath)
                     /\ IF UploadReturned(response')
                          THEN LET record == response'.result.record
                               IN  /\ records' = Append(records, record)
                                   /\ record.active
                                   /\ record.originalFilename
                                        = proc[p].input.originalname
                                   /\ record.mimetype = proc[p].input.mimetype
                                   /\ record.size = proc[p].input.size
                                   /\ record.category = proc[p].input.category
                                   /\ record.path = proc[p].relativePath
                                   /\ \A i \in 1..Len(records) :
                                         /\ records[i].id # record.id
                                         /\ records[i].path # record.path
                          ELSE records' = records /\ proc'[p].pc = "unlink"
             /\ proc[p].pc = "unlink"
                  => records' = records /\ ~UploadReturned(response')
      ]_vars

\* An image upload has returned its record into a store that held records,
\* one of them inactive, with its blob and its thumbnail on disk next to the
\* files that were there.
C36_Witness ==
    /\ UploadReturned(response)
    /\ Len(records) >= 2
    /\ \E i \in 1..(Len(records) - 1) : ~records[i].active
    /\ records[Len(records)] = response.result.record
    /\ accessible(disk, response.result.record.path)
    /\ response.result.record.thumbnailPath # ""
    /\ accessible(disk, response.result.record.thumbnailPath)
    /\ Cardinality(DOMAIN disk) >= 3

\* The upload in this slot has written its blob and has not saved its record.
BlobWritten(u) ==
    u.op = "uploadFile" /\ u.pc \in {"generateThumbnail", "save"}

\* No record of the table has this path as its path or its thumbnail path.
Unrecorded(table, path) ==
    \A i \in 1..Len(table) :
        table[i].path # path /\ table[i].thumbnailPath # path

\* An upload under way wrote this file, as its blob or as its thumbnail.
InFlight(path) ==
    \E p \in Procs :
        /\ proc[p].op = "uploadFile"
        /\ path \in {proc[p].relativePath, thumbnailName(proc[p].storedFilename)}

\* C37: a crash under an upload that had written its blob and not saved its
\* record leaves every file that was on disk, that blob included, as it
\* was, and every record as it was; unless the insert it was awaiting had
\* gone through, the store is as before and the blob has no record.  A
\* crash removes no record and changes none, and the process started again
\* runs no compensation: its constructor starts the loop of
\* ensureUploadDirectories and nothing else.  No step removes or changes the
\* blob of a record
\* or gives a file without a record a record; a getFile or getThumbnail that
\* succeeds returns an active record of the store and the bytes at that
\* record's own path, and a listing returns records of the store only.
C37_CrashLeavesOrphanOnly ==
    [][ /\ response'.op = "crash"
           => /\ \A p \in Procs :
                    BlobWritten(proc[p])
                    => /\ accessible(disk', proc[p].relativePath)
                       /\ disk'[proc[p].relativePath] = proc[p].input.buffer
                       /\ \A q \in DOMAIN disk :
                             accessible(disk', q) /\ disk'[q] = disk[q]
                       /\ \/ /\ records' = records
                             /\ Unrecorded(records', proc[p].relativePath)
                          \/ /\ proc[p].pc = "save"
                             /\ Len(records') = Len(records) + 1
                             /\ SubSeq(records', 1, Len(records)) = records
                             /\ records'[Len(records')].path
                                  = proc[p].relativePath
              /\ Len(records') >= Len(records)
              /\ SubSeq(records', 1, Len(records)) = records
              /\ boot' = [pc |-> "access", rest |-> directories]
              /\ \A p \in Procs : proc'[p] = IdleProc
        /\ \A i \in 1..Len(records) :
              accessible(disk, records[i].path)
              => /\ accessible(disk', records[i].path)
                 /\ disk'[records[i].path] = disk[records[i].path]
        /\ \A path \in DOMAIN disk :
              ( Unrecorded(records, path) /\ ~InFlight(path) )
              => Unrecorded(records', path) /\ accessible(disk', path)
        /\ ( response'.op = "getFile" /\ Succeeded(response'.result) )
           => \E i \in 1..Len(records) :
                 /\ records[i].id = response'.id /\ records[i].active
                 /\ response'.result.record = records[i]
                 /\ response'.result.buffer = disk[records[i].path]
        /\ ( response'.op = "getThumbnail" /\ Succeeded(response'.result) )
           => \E i \in 1..Len(records) :
                 /\ records[i].id = response'.id /\ records[i].active
                 /\ response'.result.buffer = disk[records[i].thumbnailPath]
        /\ response'.op = "listFiles"
           => \A k \in 1..Len(response'.result.data) :
                 \E i \in 1..Len(records) :
                    response'.result.data[k] = records[i]
      ]_vars

\* The process has just crashed under an upload that had written its blob:
\* the blob is on disk with no record, and the records stored before it
\* have their blobs.
C37_Witness ==
    /\ response.op = "crash"
    /\ response.input \in ValidInputs
    /\ accessible(disk, response.relativePath)
    /\ disk[response.relativePath] = response.input.buffer
    /\ Unrecorded(records, response.relativePath)
    /\ Len(records) > 0
    /\ \A i \in 1..Len(records) : accessible(disk, records[i].path)

\* The sweep that just ended returned its count, having examined every
\* record it loaded.
SweepReturned ==
    /\ response.op = "cleanupOrphanedFiles"
    /\ Succeeded(response.result)
    /\ sweepLog.runs # <<>>
    /\ LET run == sweepLog.runs[Len(sweepLog.runs)]
       IN  /\ run.examined = Len(run.before)
           /\ run.removed = response.result.removed

\* C38: when every await settles, an upload that has started ends, with the
\* record it stored or with an error, and a sweep that has started ends,
\* and ends by returning its count after it examined every record it
\* loaded.
C38_HandlersEnd ==
    /\ \A p \in Solo :
          ( proc[p].op = "uploadFile" )
            ~> ( /\ Free(p)
                 /\ response.op = "uploadFile"
                 /\ \/ UploadReturned(response)
                    \/ StorageBackendError(response.result) )
    /\ \A p \in Solo :
          ( proc[p].op = "cleanupOrphanedFiles" ) ~> Free(p)
    /\ [][ \A p \in Solo :
             ( proc[p].op = "cleanupOrphanedFiles" /\ proc'[p] = IdleProc )
             => SweepReturned' ]_vars

====
